---------------------------- MODULE Spec2Model ----------------------------
(***************************************************************************)
(* Hydrant: the ingestion pipeline of fhir-department.                     *)
(*                                                                         *)
(* The model follows the `hydrant' executable: the main thread runs        *)
(* main() (hydrant.c), which after init_hydrant feeds the batch buffer     *)
(* either from a file (its own loop) or from stdin (process_input), then   *)
(* calls request_shutdown; init_hydrant has started two worker threads     *)
(* (worker_thread).  Every libpq call and every fread is a nondeterministic*)
(* choice over the results the call can give.  The three pthread mutexes   *)
(* are modelled as owner sets, each lock acquisition is a step of its own, *)
(* and a thread that cannot take a lock has no enabled step.               *)
(*                                                                         *)
(* Sizes are scaled (a pool of 2 slots, a batch of 2..3 bytes, a chunk of  *)
(* 2 bytes); every byte of the input stream is identified by its offset    *)
(* in the stream (1, 2, 3, ...), so that copies, losses and re-sends of a  *)
(* byte are visible.                                                       *)
(***************************************************************************)
EXTENDS Integers, Sequences, FiniteSets, TLC

(***************************************************************************)
(* Bounds of the model (scaled sizes and caps on the environment).         *)
(***************************************************************************)
\* number of pool slots (MAX_POOL_SIZE is 10 in hydrant.h)
MAX_POOL_SIZE == 2
\* failed releases before a slot is marked dead (5 in hydrant.h)
CONNECTION_DEAD_THRESHOLD == 2
\* bytes per PQputCopyData call (8 KiB in hydrant.h)
COPY_CHUNK_SIZE == 2
\* failed recoveries before a slot is quarantined (3 in hydrant.h)
MAX_RECOVERY_ATTEMPTS == 1
\* smallest and largest batch capacity (64 KiB and 10 MiB in hydrant.h)
MIN_BATCH_SIZE == 2
MAX_BATCH_SIZE == 3
\* batch capacity when HYDRANT_BATCH_SIZE is not usable (1 MiB in hydrant.h)
DEFAULT_BATCH_SIZE == 3
\* size of main()'s read buffer (1024 in hydrant.c)
FILE_READ_SIZE == 2
\* length of the longest input stream
MaxInput == 4
\* records in the ring of batch stats (batch_stats_size is 1000 in init.c)
BATCH_STATS_SIZE == 2
\* the clock (seconds) stops advancing here
MaxTime == 1

(***************************************************************************)
(* Program constants.                                                      *)
(***************************************************************************)
MAX_BACKOFF_ATTEMPTS == 10
RECOVERY_BACKOFF_BASE_MS == 100
\* flush_batch's local max_retries
max_retries == 5
\* init_hydrant: start_workers(ctx, 2)
NUM_WORKERS == 2
\* the thread that runs main()
MainThread == 0

VARIABLES
  \* HydrantConfig
  batch_size,
  \* HydrantContext
  shutdown_requested, pool, healthy_connections,
  pool_mutex, stats_mutex, batch_mutex,
  batch_buffer, current_batch_pos,
  \* the position in the ring of batch stats
  current_batch,
  stats, workers, worker_count, ctx_freed,
  \* libpq: the connection objects ever made (PGconn), by handle number
  handles,
  \* the main thread: position, return addresses, locals
  pc, stack, loc,
  \* the worker threads' positions
  wpc,
  \* environment: clock, input stream consumed so far, end of input seen
  now, inpos, eof,
  \* the database, and the history of the run: flush_batch's results, the
  \* residual bytes request_shutdown found and the loss it logged
  db, hist

poolVars  == <<pool, healthy_connections, handles>>
lockVars  == <<pool_mutex, stats_mutex, batch_mutex>>
batchVars == <<batch_buffer, current_batch_pos>>
workVars  == <<workers, worker_count, wpc>>
envVars   == <<now, inpos, eof>>
vars == <<batch_size, shutdown_requested, pool, healthy_connections,
          pool_mutex, stats_mutex, batch_mutex, batch_buffer,
          current_batch_pos, current_batch, stats, workers, worker_count,
          ctx_freed, handles, pc, stack, loc, wpc, now, inpos, eof, db, hist>>

Slots   == 0 .. (MAX_POOL_SIZE - 1)
Workers == 1 .. NUM_WORKERS

RECURSIVE Pow2(_)
Pow2(n) == IF n = 0 THEN 1 ELSE 2 * Pow2(n - 1)

\* x << n on a C int
Shl(x, n) == x * Pow2(n)

\* the set of the elements of a sequence
Range(s) == { s[k] : k \in 1 .. Len(s) }

(***************************************************************************)
(* libpq connection objects.  PQconnectdb always returns an object; its    *)
(* status, whether the session is encrypted and whether PQprepare of       *)
(* copy_stmt succeeds on it are the environment's choice.                  *)
(***************************************************************************)
ConnOutcomes == {"ok", "connfail", "nossl", "prepfail"}

PQconnectdb(outcome) ==
  [ status   |-> IF outcome = "connfail" THEN "bad" ELSE "ok",
    ssl      |-> outcome \in {"ok", "prepfail"},
    prepared |-> FALSE,
    open     |-> TRUE ]

\* a PQfinish that leaves the connection open
PQfinishLeak(hs, h) == hs

\* PQfinish(conn): the object is gone
PQfinish(hs, h) ==
  [hs EXCEPT ![h] = [status |-> "bad", ssl |-> FALSE,
                     prepared |-> FALSE, open |-> FALSE]]

\* a libpq call on h failed; `lost' says the connection itself broke
Broken(hs, h, lost) ==
  IF lost THEN [hs EXCEPT ![h].status = "bad"] ELSE hs

\* load_config sets require_ssl = true and nothing ever changes it
require_ssl == TRUE

(***************************************************************************)
(* init.c: load_config and init_hydrant.                                   *)
(***************************************************************************)
\* load_config(NULL): HYDRANT_BATCH_SIZE is taken only when it is in range.
\* `env' is <<>> when the variable is not set, else <<atol(value)>>.
load_config(env) ==
  IF env # <<>> /\ env[1] >= MIN_BATCH_SIZE /\ env[1] <= MAX_BATCH_SIZE
  THEN env[1]
  ELSE DEFAULT_BATCH_SIZE

\* init_hydrant's clamp of config->batch_size
ClampBatchSize(b) ==
  IF b < MIN_BATCH_SIZE THEN MIN_BATCH_SIZE
  ELSE IF b > MAX_BATCH_SIZE THEN MAX_BATCH_SIZE
  ELSE b

EnvBatchSizes == {<<>>} \cup { <<v>> : v \in 0 .. (MAX_BATCH_SIZE + 1) }

\* the connection object slot i holds after init_hydrant's loop body
InitHandle(outcome) ==
  [PQconnectdb(outcome) EXCEPT !.prepared = (outcome = "ok")]

\* init_hydrant's loop body for one slot; the slot's handle is number h
InitSlot(outcome, h) ==
  LET c == InitHandle(outcome) IN
  [ conn                  |-> h,
    state                 |-> IF c.status # "ok" THEN "DEAD"
                              ELSE IF require_ssl /\ ~c.ssl THEN "DEAD"
                              ELSE IF ~c.prepared THEN "DEAD"
                              ELSE "AVAILABLE",
    failed_attempts       |-> 0,
    recovery_attempts     |-> 0,
    next_recovery_attempt |-> 0,
    last_error            |-> IF c.status # "ok" THEN "connect" ELSE "" ]

\* the number of slots init_hydrant counted as healthy
InitHealthy(p) == Cardinality({ i \in Slots : p[i].state = "AVAILABLE" })

NoLocals ==
  [ conn |-> 0, success |-> TRUE, total_written |-> 0, retry_count |-> 0,
    processed |-> 0, failed |-> 0, ok |-> TRUE, retval |-> TRUE,
    bytes_read |-> 0, i |-> 0, md_slot |-> 0, md_error |-> "",
    timeout |-> 0,
    had_error |-> FALSE, entry_pos |-> 0 ]

\* the history of a run in which nothing has happened yet
NoHistory ==
  [sum_processed |-> 0, failed_bytes |-> {},
   residual |-> {}, shutdown_loss |-> -1,
   second_call |-> FALSE,
   quarantine_logs |-> [i \in Slots |-> 0],
   dead_logs |-> 0,
   acq |-> <<>>,
   flush_log |-> <<>>,
   failed_recoveries |-> 0,
   bp_run |-> 0, bp_tolerated |-> FALSE, slept_ns |-> 0]

\* The state init_hydrant is in after its loop over the slots: the context,
\* the mutexes and the pool exist, the workers do not yet.
Init ==
  /\ \E env \in EnvBatchSizes : batch_size = ClampBatchSize(load_config(env))
  /\ shutdown_requested = FALSE
  /\ \E o \in [Slots -> ConnOutcomes] :
        /\ pool = [i \in Slots |-> InitSlot(o[i], i + 1)]
        /\ handles = [h \in 1 .. MAX_POOL_SIZE |-> InitHandle(o[h - 1])]
  /\ healthy_connections = InitHealthy(pool)
  /\ pool_mutex = {} /\ stats_mutex = {} /\ batch_mutex = {}
  /\ batch_buffer = [k \in 0 .. (batch_size - 1) |-> 0]
  /\ current_batch_pos = 0
  /\ current_batch = 0
  /\ stats = [ total_bytes |-> 0, batches_processed |-> 0, errors |-> 0,
               connection_resets |-> 0, connection_failures |-> 0,
               start_time |-> 0, last_batch |-> 0 ]
  /\ workers = <<>>
  /\ worker_count = 0
  /\ ctx_freed = FALSE
  /\ pc = "init_check" /\ stack = <<>> /\ loc = NoLocals
  /\ wpc = [w \in Workers |-> "w_unstarted"]
  /\ now = 0 /\ inpos = 0 /\ eof = FALSE
  /\ db = [copy |-> <<>>, committed |-> <<>>]
  /\ hist = NoHistory

(***************************************************************************)
(* Calls and returns of the main thread.                                   *)
(***************************************************************************)
Goto(l)    == pc' = l /\ UNCHANGED stack
Call(l, r) == pc' = l /\ stack' = <<r>> \o stack
Return     == pc' = Head(stack) /\ stack' = Tail(stack)

(***************************************************************************)
(* init.c: the rest of init_hydrant.                                       *)
(***************************************************************************)
\* an init_hydrant that goes on without a healthy connection
InitGoesOnAnyway(healthy) == TRUE

\* if (ctx->healthy_connections == 0) { cleanup_hydrant(ctx); return NULL; }
InitGoesOn(healthy) == healthy # 0

\* no healthy connection: cleanup_hydrant(ctx), return NULL, and main
\* exits; else the stats' time stamps are set, start_workers(ctx, 2)
\* creates the worker threads and main gets the context
init_check ==
  /\ pc = "init_check"
  /\ IF InitGoesOn(healthy_connections)
     THEN /\ stats' = [stats EXCEPT !.start_time = now, !.last_batch = now]
          /\ workers' = [w \in Workers |-> [running |-> TRUE]]
          /\ worker_count' = NUM_WORKERS
          /\ wpc' = [w \in Workers |-> "w_loop"]
          /\ Goto("main")
     ELSE /\ pc' = "gds_lock_stats"
          /\ stack' = <<"cl_stop", "init_null">> \o stack
          /\ UNCHANGED <<stats, workVars>>
  /\ UNCHANGED <<batch_size, current_batch, shutdown_requested, poolVars, lockVars,
                 batchVars, ctx_freed, loc, envVars, db, hist>>

\* the bytes fread put in the caller's buffer: the last bytes_read bytes of
\* the stream consumed so far
ReadBuf == [k \in 1 .. loc.bytes_read |-> inpos - loc.bytes_read + k]

\* fread(buffer, 1, size, fp): a full read, or a short one at end of input
Fread(size, n) ==
  /\ n \in 0 .. size
  /\ inpos + n <= MaxInput
  /\ IF eof THEN n = 0 /\ eof' = eof
     ELSE eof' = (n < size)
  /\ inpos' = inpos + n
  /\ now' = now

(***************************************************************************)
(* batch.c: add_to_batch.                                                  *)
(***************************************************************************)
\* a test that lets an append run one byte past the end of the buffer
AddFitsLax(pos, size) == ~(pos + size > batch_size + 1)

\* a test that refuses an append that would fill the buffer exactly
AddFitsStrict(pos, size) == pos + size < batch_size

\* the test of add_to_batch: the bytes fit in what is left of the buffer
AddFits(pos, size) == ~(pos + size > batch_size)

\* a copy that forgets the offset and writes at the start of the buffer
MemcpyAtStart(buf, pos, data) ==
  [k \in DOMAIN buf |-> IF k < Len(data) THEN data[k + 1] ELSE buf[k]]

\* memcpy(ctx->batch_buffer + pos, data, size)
Memcpy(buf, pos, data) ==
  [k \in DOMAIN buf |->
     IF k >= pos /\ k < pos + Len(data) THEN data[k - pos + 1] ELSE buf[k]]

add_lock ==
  /\ pc = "add_lock"
  /\ batch_mutex = {}
  /\ batch_mutex' = {MainThread}
  /\ Goto("add_body")
  /\ UNCHANGED <<batch_size, current_batch, shutdown_requested, poolVars, pool_mutex,
                 stats_mutex, batchVars, stats, workVars, ctx_freed, loc,
                 envVars, db, hist>>

add_body ==
  /\ pc = "add_body"
  /\ IF AddFits(current_batch_pos, loc.bytes_read)
     THEN /\ batch_buffer' = Memcpy(batch_buffer, current_batch_pos, ReadBuf)
          /\ current_batch_pos' = current_batch_pos + loc.bytes_read
          /\ loc' = [loc EXCEPT !.retval = TRUE]
     ELSE /\ UNCHANGED batchVars
          /\ loc' = [loc EXCEPT !.retval = FALSE]
  /\ batch_mutex' = {}
  /\ Return
  /\ UNCHANGED <<batch_size, current_batch, shutdown_requested, poolVars, pool_mutex,
                 stats_mutex, stats, workVars, ctx_freed, envVars, db, hist>>

(***************************************************************************)
(* hydrant.c: main, after init_hydrant has returned a context.             *)
(***************************************************************************)
\* argc > 2 and the file opens: main's own read loop
main_file ==
  /\ pc = "main"
  /\ Goto("main_fread")
  /\ UNCHANGED <<batch_size, current_batch, shutdown_requested, poolVars, lockVars,
                 batchVars, stats, workVars, ctx_freed, loc, envVars, db,
                 hist>>

\* argc > 2 and fopen fails: request_shutdown, exit
main_nofile ==
  /\ pc = "main"
  /\ Call("rs_store", "main_exit")
  /\ UNCHANGED <<batch_size, current_batch, shutdown_requested, poolVars, lockVars,
                 batchVars, stats, workVars, ctx_freed, loc, envVars, db,
                 hist>>

\* no input file: process_input reads stdin
main_stdin ==
  /\ pc = "main"
  /\ Call("pi_fread", "main_status")
  /\ UNCHANGED <<batch_size, current_batch, shutdown_requested, poolVars, lockVars,
                 batchVars, stats, workVars, ctx_freed, loc, envVars, db,
                 hist>>

main_fread ==
  /\ pc = "main_fread"
  /\ \E n \in 0 .. FILE_READ_SIZE :
       /\ Fread(FILE_READ_SIZE, n)
       /\ loc' = [loc EXCEPT !.bytes_read = n]
       /\ IF n > 0 THEN Call("add_lock", "main_add1")
                   ELSE Goto("main_status")
  /\ UNCHANGED <<batch_size, current_batch, shutdown_requested, poolVars, lockVars,
                 batchVars, stats, workVars, ctx_freed, db, hist>>

\* if (!add_to_batch(...)) { flush_batch(ctx, &processed, &failed); ...
main_add1 ==
  /\ pc = "main_add1"
  /\ IF loc.retval
     THEN Goto("main_fread") /\ loc' = loc
     ELSE /\ Call("f_entry", "main_flushed")
          /\ loc' = [loc EXCEPT !.processed = 0, !.failed = 0]
  /\ UNCHANGED <<batch_size, current_batch, shutdown_requested, poolVars, lockVars,
                 batchVars, stats, workVars, ctx_freed, envVars, db, hist>>

\* update_batch_stats(ctx, processed, failed) after the flush
main_flushed ==
  /\ pc = "main_flushed"
  /\ Call("ubs_lock", "main_retry")
  /\ UNCHANGED <<batch_size, current_batch, shutdown_requested, poolVars, lockVars,
                 batchVars, stats, workVars, ctx_freed, loc, envVars, db,
                 hist>>

main_retry ==
  /\ pc = "main_retry"
  /\ Call("add_lock", "main_add2")
  /\ loc' = [loc EXCEPT !.processed = 0, !.failed = 0]
  /\ UNCHANGED <<batch_size, current_batch, shutdown_requested, poolVars, lockVars,
                 batchVars, stats, workVars, ctx_freed, envVars, db, hist>>

\* the second add_to_batch: break when it fails too
main_add2 ==
  /\ pc = "main_add2"
  /\ IF loc.retval THEN Goto("main_fread") ELSE Goto("main_status")
  /\ UNCHANGED <<batch_size, current_batch, shutdown_requested, poolVars, lockVars,
                 batchVars, stats, workVars, ctx_freed, loc, envVars, db,
                 hist>>

\* get_detailed_status, then request_shutdown
main_status ==
  /\ pc = "main_status"
  /\ Call("gds_lock_stats", "main_shutdown")
  /\ UNCHANGED <<batch_size, current_batch, shutdown_requested, poolVars, lockVars,
                 batchVars, stats, workVars, ctx_freed, loc, envVars, db,
                 hist>>

main_shutdown ==
  /\ pc = "main_shutdown"
  /\ Call("rs_store", "main_exit")
  /\ UNCHANGED <<batch_size, current_batch, shutdown_requested, poolVars, lockVars,
                 batchVars, stats, workVars, ctx_freed, loc, envVars, db,
                 hist>>

(***************************************************************************)
(* batch.c: process_input.                                                 *)
(***************************************************************************)
\* fread(buffer, 1, sizeof(buffer), stdin) with sizeof(buffer) = batch_size
pi_fread ==
  /\ pc = "pi_fread"
  /\ \E n \in 0 .. batch_size :
       /\ Fread(batch_size, n)
       /\ loc' = [loc EXCEPT !.bytes_read = n]
       /\ IF n > 0 THEN Call("add_lock", "pi_add1")
                   ELSE Goto("pi_final")
  /\ UNCHANGED <<batch_size, current_batch, shutdown_requested, poolVars, lockVars,
                 batchVars, stats, workVars, ctx_freed, db, hist>>

pi_add1 ==
  /\ pc = "pi_add1"
  /\ IF loc.retval
     THEN Goto("pi_check") /\ loc' = loc
     ELSE /\ Call("f_entry", "pi_flushed")
          /\ loc' = [loc EXCEPT !.processed = 0, !.failed = 0]
  /\ UNCHANGED <<batch_size, current_batch, shutdown_requested, poolVars, lockVars,
                 batchVars, stats, workVars, ctx_freed, envVars, db, hist>>

pi_flushed ==
  /\ pc = "pi_flushed"
  /\ Call("ubs_lock", "pi_retry")
  /\ UNCHANGED <<batch_size, current_batch, shutdown_requested, poolVars, lockVars,
                 batchVars, stats, workVars, ctx_freed, loc, envVars, db,
                 hist>>

pi_retry ==
  /\ pc = "pi_retry"
  /\ Call("add_lock", "pi_add2")
  /\ loc' = [loc EXCEPT !.processed = 0, !.failed = 0]
  /\ UNCHANGED <<batch_size, current_batch, shutdown_requested, poolVars, lockVars,
                 batchVars, stats, workVars, ctx_freed, envVars, db, hist>>

pi_add2 ==
  /\ pc = "pi_add2"
  /\ IF loc.retval THEN Goto("pi_check") ELSE Goto("pi_final")
  /\ UNCHANGED <<batch_size, current_batch, shutdown_requested, poolVars, lockVars,
                 batchVars, stats, workVars, ctx_freed, loc, envVars, db,
                 hist>>

\* if (atomic_load(&ctx->shutdown_requested)) break;
pi_check ==
  /\ pc = "pi_check"
  /\ IF shutdown_requested THEN Goto("pi_final") ELSE Goto("pi_fread")
  /\ UNCHANGED <<batch_size, current_batch, shutdown_requested, poolVars, lockVars,
                 batchVars, stats, workVars, ctx_freed, loc, envVars, db,
                 hist>>

\* the final batch: if (ctx->current_batch_pos > 0) flush_batch(...)
pi_final ==
  /\ pc = "pi_final"
  /\ IF current_batch_pos > 0
     THEN /\ Call("f_entry", "pi_final_flushed")
          /\ loc' = [loc EXCEPT !.processed = 0, !.failed = 0]
     ELSE Goto("pi_status") /\ loc' = loc
  /\ UNCHANGED <<batch_size, current_batch, shutdown_requested, poolVars, lockVars,
                 batchVars, stats, workVars, ctx_freed, envVars, db, hist>>

pi_final_flushed ==
  /\ pc = "pi_final_flushed"
  /\ Call("ubs_lock", "pi_status")
  /\ UNCHANGED <<batch_size, current_batch, shutdown_requested, poolVars, lockVars,
                 batchVars, stats, workVars, ctx_freed, loc, envVars, db,
                 hist>>

pi_status ==
  /\ pc = "pi_status"
  /\ Call("gds_lock_stats", "pi_ret")
  /\ loc' = [loc EXCEPT !.processed = 0, !.failed = 0]
  /\ UNCHANGED <<batch_size, current_batch, shutdown_requested, poolVars, lockVars,
                 batchVars, stats, workVars, ctx_freed, envVars, db, hist>>

pi_ret ==
  /\ pc = "pi_ret"
  /\ Return
  /\ UNCHANGED <<batch_size, current_batch, shutdown_requested, poolVars, lockVars,
                 batchVars, stats, workVars, ctx_freed, loc, envVars, db,
                 hist>>

(***************************************************************************)
(* batch.c: update_batch_stats and get_detailed_status.                    *)
(***************************************************************************)
ubs_lock ==
  /\ pc = "ubs_lock"
  /\ stats_mutex = {}
  /\ stats_mutex' = {MainThread}
  /\ Goto("ubs_body")
  /\ UNCHANGED <<batch_size, current_batch, shutdown_requested, poolVars, pool_mutex,
                 batch_mutex, batchVars, stats, workVars, ctx_freed, loc,
                 envVars, db, hist>>

\* the records of the ring, batch_stats[0 .. batch_stats_size - 1]
RingIndexes == 0 .. (BATCH_STATS_SIZE - 1)

\* if (ctx->stats.batches_processed > 1): the average is brought up to date
\* from the time stamp of the record before the current one
ReadsPrevious(batches_processed) == batches_processed > 1

\* ctx->current_batch - 1 on a size_t: -1 stands for 2^64 - 1
PreviousBatch(cb) == cb - 1

\* ctx->current_batch = (ctx->current_batch + 1) % ctx->batch_stats_size
NextBatch(cb) == (cb + 1) % BATCH_STATS_SIZE

\* the record batch_stats[current_batch] is written, the running stats are
\* added to, the record batch_stats[current_batch - 1] is read when
\* batches_processed > 1, and the position advances.  The records
\* themselves and the average computed from them are not part of the state.
ubs_body ==
  /\ pc = "ubs_body"
  /\ stats' = [stats EXCEPT
                 !.total_bytes = @ + loc.processed,
                 !.batches_processed = @ + 1,
                 !.errors = @ + loc.failed]
  /\ current_batch' = NextBatch(current_batch)
  /\ stats_mutex' = {}
  /\ Return
  /\ UNCHANGED <<batch_size, shutdown_requested, poolVars, pool_mutex,
                 batch_mutex, batchVars, workVars, ctx_freed, loc, envVars,
                 db, hist>>

gds_lock_stats ==
  /\ pc = "gds_lock_stats"
  /\ stats_mutex = {}
  /\ stats_mutex' = {MainThread}
  /\ Goto("gds_lock_pool")
  /\ UNCHANGED <<batch_size, current_batch, shutdown_requested, poolVars, pool_mutex,
                 batch_mutex, batchVars, stats, workVars, ctx_freed, loc,
                 envVars, db, hist>>

gds_lock_pool ==
  /\ pc = "gds_lock_pool"
  /\ pool_mutex = {}
  /\ pool_mutex' = {MainThread}
  /\ Goto("gds_body")
  /\ UNCHANGED <<batch_size, current_batch, shutdown_requested, poolVars, stats_mutex,
                 batch_mutex, batchVars, stats, workVars, ctx_freed, loc,
                 envVars, db, hist>>

\* the snapshot is rendered; both locks are released, pool_mutex first
gds_body ==
  /\ pc = "gds_body"
  /\ pool_mutex' = {}
  /\ stats_mutex' = {}
  /\ Return
  /\ UNCHANGED <<batch_size, current_batch, shutdown_requested, poolVars, batch_mutex,
                 batchVars, stats, workVars, ctx_freed, loc, envVars, db,
                 hist>>

(***************************************************************************)
(* connection.c: find_pool_connection and mark_connection_dead.            *)
(***************************************************************************)
\* a lock call that returns without the mutex
PoolLockSkipped(t) == {}

\* pthread_mutex_lock(&ctx->pool_mutex) has returned in thread t (in
\* get_connection, also pthread_cond_timedwait): t owns the mutex
PoolLocked(t) == {t}

\* the first slot whose conn is `conn'; -1 stands for NULL
find_pool_connection(p, conn) ==
  IF \E i \in Slots : p[i].conn = conn
  THEN CHOOSE i \in Slots :
         /\ p[i].conn = conn
         /\ \A j \in Slots : p[j].conn = conn => i <= j
  ELSE -1

\* a mark_connection_dead without its guard
MarkDeadAlways(st) == TRUE

\* mark_connection_dead acts only on a slot that is not dead already
MarkDeadApplies(st) == st # "DEAD" /\ st # "PERMANENT_FAILURE"

\* pc->state = CONN_DEAD; snprintf(pc->last_error, ..., "%s", error);
MarkedDead(slot, error) ==
  [slot EXCEPT !.state = "DEAD", !.last_error = error]

\* pthread_mutex_lock(&ctx->stats_mutex)
md_lock_stats ==
  /\ pc = "md_lock_stats"
  /\ stats_mutex = {}
  /\ stats_mutex' = {MainThread}
  /\ Goto("md_lock_pool")
  /\ UNCHANGED <<batch_size, current_batch, shutdown_requested, poolVars, pool_mutex,
                 batch_mutex, batchVars, stats, workVars, ctx_freed, loc,
                 envVars, db, hist>>

\* pthread_mutex_lock(&ctx->pool_mutex), the mutex being free
md_lock_pool ==
  /\ pc = "md_lock_pool"
  /\ pool_mutex = {}
  /\ pool_mutex' = PoolLocked(MainThread)
  /\ Goto("md_body")
  /\ UNCHANGED <<batch_size, current_batch, shutdown_requested, poolVars, stats_mutex,
                 batch_mutex, batchVars, stats, workVars, ctx_freed, loc,
                 envVars, db, hist>>

\* pthread_mutex_lock(&ctx->pool_mutex) by the thread that holds it (the
\* call from return_connection).  The mutexes are made with default
\* attributes, for which locking again is undefined: a normal mutex (glibc)
\* never returns,
md_relock_blocks ==
  /\ pc = "md_lock_pool"
  /\ pool_mutex = {MainThread}
  /\ Goto("self_deadlock")
  /\ UNCHANGED <<batch_size, current_batch, shutdown_requested, poolVars, lockVars,
                 batchVars, stats, workVars, ctx_freed, loc, envVars, db,
                 hist>>

\* and an error-checking one returns EDEADLK, which the code ignores.
md_relock_fails ==
  /\ pc = "md_lock_pool"
  /\ pool_mutex = {MainThread}
  /\ Goto("md_body")
  /\ UNCHANGED <<batch_size, current_batch, shutdown_requested, poolVars, lockVars,
                 batchVars, stats, workVars, ctx_freed, loc, envVars, db,
                 hist>>

\* healthy_connections is a size_t: a value below 0 stands for that value
\* plus 2^64.
md_body ==
  /\ pc = "md_body"
  /\ IF MarkDeadApplies(pool[loc.md_slot].state)
     THEN /\ healthy_connections' = healthy_connections - 1
          /\ pool' = [pool EXCEPT
                        ![loc.md_slot] = MarkedDead(@, loc.md_error)]
          /\ hist' = [hist EXCEPT !.dead_logs = @ + 1]
     ELSE UNCHANGED <<pool, healthy_connections, hist>>
  /\ pool_mutex' = pool_mutex \ {MainThread}
  /\ stats_mutex' = stats_mutex \ {MainThread}
  /\ Return
  /\ UNCHANGED <<batch_size, current_batch, shutdown_requested, handles, batch_mutex,
                 batchVars, stats, workVars, ctx_freed, loc, envVars, db>>

(***************************************************************************)
(* connection.c: return_connection.                                        *)
(***************************************************************************)
rc_lock ==
  /\ pc = "rc_lock"
  /\ pool_mutex = {}
  /\ pool_mutex' = PoolLocked(MainThread)
  /\ Goto("rc_body")
  /\ UNCHANGED <<batch_size, current_batch, shutdown_requested, poolVars, stats_mutex,
                 batch_mutex, batchVars, stats, workVars, ctx_freed, loc,
                 envVars, db, hist>>

\* a release that makes the slot available and leaves its failure count
ReleasedSlotKeepsCount(slot, had_error) ==
  [slot EXCEPT !.state = "AVAILABLE",
               !.failed_attempts = IF had_error THEN @ + 1 ELSE @]

\* a release that counts the failure and leaves the slot's state alone
ReleasedSlotStaysInUse(slot, had_error) ==
  [slot EXCEPT !.failed_attempts = IF had_error THEN @ + 1 ELSE 0]

\* the slot as return_connection leaves it before any mark_connection_dead
ReleasedSlot(slot, had_error) ==
  IF had_error
  THEN IF slot.failed_attempts + 1 >= CONNECTION_DEAD_THRESHOLD
       THEN [slot EXCEPT !.failed_attempts = @ + 1, !.last_error = "pq"]
       ELSE [slot EXCEPT !.failed_attempts = @ + 1, !.last_error = "pq",
                         !.state = "AVAILABLE"]
  ELSE [slot EXCEPT !.state = "AVAILABLE", !.failed_attempts = 0]

\* return_connection calls mark_connection_dead
ReleaseMarksDead(slot, had_error) ==
  had_error /\ slot.failed_attempts + 1 >= CONNECTION_DEAD_THRESHOLD

rc_body ==
  /\ pc = "rc_body"
  /\ LET i == find_pool_connection(pool, loc.conn) IN
       IF i = -1
       THEN Goto("rc_signal") /\ UNCHANGED <<pool, loc>>
       ELSE /\ pool' = [pool EXCEPT ![i] = ReleasedSlot(pool[i], loc.had_error)]
            /\ IF ReleaseMarksDead(pool[i], loc.had_error)
               THEN /\ Call("md_lock_stats", "rc_signal")
                    /\ loc' = [loc EXCEPT !.md_slot = i, !.md_error = "pq"]
               ELSE Goto("rc_signal") /\ loc' = loc
  /\ UNCHANGED <<batch_size, current_batch, shutdown_requested, healthy_connections,
                 handles, lockVars, batchVars, stats, workVars, ctx_freed,
                 envVars, db, hist>>

\* pthread_cond_signal; pthread_mutex_unlock(&ctx->pool_mutex).  Unlocking
\* a mutex the thread no longer owns fails with EPERM.
rc_signal ==
  /\ pc = "rc_signal"
  /\ pool_mutex' = pool_mutex \ {MainThread}
  /\ Return
  /\ UNCHANGED <<batch_size, current_batch, shutdown_requested, poolVars, stats_mutex,
                 batch_mutex, batchVars, stats, workVars, ctx_freed, loc,
                 envVars, db, hist>>

(***************************************************************************)
(* connection.c: recover_dead_connection (called by get_connection with    *)
(* pool_mutex held, on slot loc.i).                                        *)
(***************************************************************************)
\* seconds until the next attempt, after `attempts' failed ones
RecoveryBackoff(attempts) ==
  Shl(RECOVERY_BACKOFF_BASE_MS,
      IF attempts < MAX_BACKOFF_ATTEMPTS THEN attempts
      ELSE MAX_BACKOFF_ATTEMPTS) \div 1000

\* a recovery that forgets to store the fresh connection object in the
\* slot, which keeps pointing at the object PQfinish has disposed of
RecoveredSlotStale(slot, outcome, h, t) ==
  IF outcome = "ok"
  THEN [slot EXCEPT !.failed_attempts = 0, !.recovery_attempts = 0,
                    !.next_recovery_attempt = 0, !.state = "AVAILABLE"]
  ELSE [slot EXCEPT !.recovery_attempts = @ + 1]

\* a recovery that does not look at whether the session is encrypted
RecoveredSlotAnyTransport(slot, outcome, h, t) ==
  IF outcome \in {"connfail", "prepfail"}
  THEN [slot EXCEPT !.conn = h, !.recovery_attempts = @ + 1]
  ELSE [slot EXCEPT !.conn = h, !.failed_attempts = 0,
                    !.recovery_attempts = 0, !.next_recovery_attempt = 0,
                    !.state = "AVAILABLE"]

\* the slot after a recovery attempt with the given outcome, made at time t
\* on the fresh connection object h
RecoveredSlot(slot, outcome, h, t) ==
  CASE outcome = "connfail" ->
         [slot EXCEPT !.conn = h,
                      !.recovery_attempts = @ + 1,
                      !.last_error = "recover",
                      !.next_recovery_attempt =
                         t + RecoveryBackoff(slot.recovery_attempts + 1)]
    [] outcome = "nossl" /\ require_ssl ->
         [slot EXCEPT !.conn = h, !.recovery_attempts = @ + 1,
                      !.last_error = "recover"]
    [] outcome = "prepfail" ->
         [slot EXCEPT !.conn = h, !.recovery_attempts = @ + 1,
                      !.last_error = "recover"]
    [] OTHER ->
         [slot EXCEPT !.conn = h, !.failed_attempts = 0,
                      !.recovery_attempts = 0,
                      !.next_recovery_attempt = 0,
                      !.state = "AVAILABLE"]

\* the fresh connection object after PQconnectdb and, if reached, PQprepare
RecoveredHandle(outcome) ==
  [PQconnectdb(outcome) EXCEPT
     !.prepared = (outcome = "ok" \/ (outcome = "nossl" /\ ~require_ssl))]

\* the exit recover_dead_connection takes for an outcome
RecoverExit(outcome) ==
  CASE outcome = "connfail" -> "r_fail_lock"
    [] outcome = "nossl" /\ require_ssl -> "g_next"
    [] outcome = "prepfail" -> "g_next"
    [] OTHER -> "r_ok_lock"

\* a quarantine test that lets one attempt too many through
QuarantinedLate(slot) == slot.recovery_attempts > MAX_RECOVERY_ATTEMPTS

\* if (pc->recovery_attempts >= MAX_RECOVERY_ATTEMPTS)
Quarantined(slot) == slot.recovery_attempts >= MAX_RECOVERY_ATTEMPTS

\* recover_dead_connection up to its first lock or return: nothing while
\* now < next_recovery_attempt; quarantine once recovery_attempts has
\* reached MAX_RECOVERY_ATTEMPTS; else PQfinish the old object, PQconnectdb
\* a new one, check it and prepare copy_stmt on it
r_entry(outcome) ==
  /\ pc = "r_entry"
  /\ IF now < pool[loc.i].next_recovery_attempt
     THEN /\ Goto("g_next")
          /\ UNCHANGED <<pool, handles, hist>>
     ELSE IF Quarantined(pool[loc.i])
     THEN /\ pool' = IF pool[loc.i].state # "PERMANENT_FAILURE"
                     THEN [pool EXCEPT ![loc.i].state = "PERMANENT_FAILURE"]
                     ELSE pool
          /\ hist' = IF pool[loc.i].state # "PERMANENT_FAILURE"
                     THEN [hist EXCEPT !.quarantine_logs[loc.i] = @ + 1]
                     ELSE hist
          /\ Goto("g_next")
          /\ UNCHANGED handles
     ELSE LET old == pool[loc.i].conn
              h   == Len(handles) + 1
          IN /\ handles' = Append(IF old # 0 THEN PQfinish(handles, old)
                                  ELSE handles,
                                  RecoveredHandle(outcome))
             /\ pool' = [pool EXCEPT
                           ![loc.i] = RecoveredSlot(pool[loc.i], outcome, h,
                                                    now)]
             /\ Goto(RecoverExit(outcome))
             /\ hist' = IF RecoverExit(outcome) # "r_ok_lock"
                        THEN [hist EXCEPT !.failed_recoveries = @ + 1]
                        ELSE hist
  /\ UNCHANGED <<batch_size, current_batch, shutdown_requested, healthy_connections,
                 lockVars, batchVars, stats, workVars, ctx_freed, loc,
                 envVars, db>>

\* pthread_mutex_lock(&ctx->stats_mutex), pool_mutex being held
r_fail_lock ==
  /\ pc = "r_fail_lock"
  /\ stats_mutex = {}
  /\ stats_mutex' = {MainThread}
  /\ Goto("r_fail_body")
  /\ UNCHANGED <<batch_size, current_batch, shutdown_requested, poolVars, pool_mutex,
                 batch_mutex, batchVars, stats, workVars, ctx_freed, loc,
                 envVars, db, hist>>

r_fail_body ==
  /\ pc = "r_fail_body"
  /\ stats' = [stats EXCEPT !.connection_failures = @ + 1]
  /\ stats_mutex' = {}
  /\ Goto("g_next")
  /\ UNCHANGED <<batch_size, current_batch, shutdown_requested, poolVars, pool_mutex,
                 batch_mutex, batchVars, workVars, ctx_freed, loc, envVars,
                 db, hist>>

r_ok_lock ==
  /\ pc = "r_ok_lock"
  /\ stats_mutex = {}
  /\ stats_mutex' = {MainThread}
  /\ Goto("r_ok_body")
  /\ UNCHANGED <<batch_size, current_batch, shutdown_requested, poolVars, pool_mutex,
                 batch_mutex, batchVars, stats, workVars, ctx_freed, loc,
                 envVars, db, hist>>

\* the counters of a successful recovery; back in get_connection the slot
\* is taken: IN_USE, unlock, return pc->conn
r_ok_body ==
  /\ pc = "r_ok_body"
  /\ stats' = [stats EXCEPT !.connection_resets = @ + 1]
  /\ healthy_connections' = healthy_connections + 1
  /\ stats_mutex' = {}
  /\ pool' = [pool EXCEPT ![loc.i].state = "IN_USE"]
  /\ pool_mutex' = {}
  /\ loc' = [loc EXCEPT !.conn = pool[loc.i].conn, !.i = 0]
  /\ Return
  /\ UNCHANGED <<batch_size, current_batch, shutdown_requested, handles, batch_mutex,
                 batchVars, workVars, ctx_freed, envVars, db, hist>>

(***************************************************************************)
(* connection.c: get_connection.                                           *)
(***************************************************************************)
\* a scan that looks at the connection's status but treats a quarantined
\* slot like an available one
UsableQuarantined(p, hs, i) ==
  /\ p[i].state \in {"AVAILABLE", "PERMANENT_FAILURE"}
  /\ hs[p[i].conn].status = "ok"

\* a slot the first pass (and the scan after a wake-up) may hand out
\* (PQstatus(NULL) is CONNECTION_BAD)
Usable(p, hs, i) ==
  /\ p[i].state = "AVAILABLE"
  /\ p[i].conn # 0
  /\ hs[p[i].conn].status = "ok"

\* a slot the second pass tries to recover
Recoverable(st) == st = "DEAD"

\* the slot a scan hands out: the first usable one, -1 if there is none
FirstUsable(p, hs) ==
  IF \E i \in Slots : Usable(p, hs, i)
  THEN CHOOSE i \in Slots :
         Usable(p, hs, i) /\ \A j \in Slots : Usable(p, hs, j) => i <= j
  ELSE -1

\* a wait loop that takes a fresh one-second deadline after every wake-up
DeadlineRenewed(timeout, t) == t + 1

\* the deadline of the next pthread_cond_timedwait after a wake-up at time
\* t that found no usable slot: `timeout' is not assigned in the loop
DeadlineAfterWake(timeout, t) == timeout

\* hist.acq keeps the pool and the healthy counter as get_connection found
\* them
g_lock ==
  /\ pc = "g_lock"
  /\ pool_mutex = {}
  /\ pool_mutex' = PoolLocked(MainThread)
  /\ hist' = [hist EXCEPT !.acq = <<pool, healthy_connections>>]
  /\ Goto("g_first")
  /\ UNCHANGED <<batch_size, current_batch, shutdown_requested, poolVars, stats_mutex,
                 batch_mutex, batchVars, stats, workVars, ctx_freed, loc,
                 envVars, db>>

\* first pass; also the scan made after a wake-up from the wait
g_scan ==
  /\ pc \in {"g_first", "g_rescan"}
  /\ LET i == FirstUsable(pool, handles) IN
       IF i # -1
       THEN /\ pool' = [pool EXCEPT ![i].state = "IN_USE"]
            /\ pool_mutex' = {}
            /\ loc' = [loc EXCEPT !.conn = pool[i].conn, !.i = 0,
                                  !.timeout = 0]
            /\ Return
       ELSE /\ IF pc = "g_first" THEN Goto("g_second")
                                 ELSE Goto("g_timedwait")
            /\ loc' = [loc EXCEPT
                         !.i = 0,
                         !.timeout = IF pc = "g_rescan"
                                     THEN DeadlineAfterWake(@, now)
                                     ELSE @]
            /\ UNCHANGED <<pool, pool_mutex>>
  /\ UNCHANGED <<batch_size, current_batch, shutdown_requested, healthy_connections,
                 handles, stats_mutex, batch_mutex, batchVars, stats,
                 workVars, ctx_freed, envVars, db, hist>>

\* second pass, slot loc.i
g_second ==
  /\ pc = "g_second"
  /\ IF loc.i = MAX_POOL_SIZE
     THEN Goto("g_wait") /\ loc' = [loc EXCEPT !.i = 0]
     ELSE IF Recoverable(pool[loc.i].state)
          THEN Goto("r_entry") /\ loc' = loc
          ELSE Goto("g_second") /\ loc' = [loc EXCEPT !.i = @ + 1]
  /\ UNCHANGED <<batch_size, current_batch, shutdown_requested, poolVars, lockVars,
                 batchVars, stats, workVars, ctx_freed, envVars, db, hist>>

\* recover_dead_connection returned false: next slot
g_next ==
  /\ pc = "g_next"
  /\ Goto("g_second")
  /\ loc' = [loc EXCEPT !.i = @ + 1]
  /\ UNCHANGED <<batch_size, current_batch, shutdown_requested, poolVars, lockVars,
                 batchVars, stats, workVars, ctx_freed, envVars, db, hist>>

\* clock_gettime(CLOCK_REALTIME, &timeout); timeout.tv_sec += 1
g_wait ==
  /\ pc = "g_wait"
  /\ loc' = [loc EXCEPT !.timeout = now + 1]
  /\ Goto("g_timedwait")
  /\ UNCHANGED <<batch_size, current_batch, shutdown_requested, poolVars, lockVars,
                 batchVars, stats, workVars, ctx_freed, envVars, db, hist>>

\* pthread_cond_timedwait: the mutex is released and the thread sleeps
g_timedwait ==
  /\ pc = "g_timedwait"
  /\ pool_mutex' = {}
  /\ Goto("g_blocked")
  /\ UNCHANGED <<batch_size, current_batch, shutdown_requested, poolVars, stats_mutex,
                 batch_mutex, batchVars, stats, workVars, ctx_freed, loc,
                 envVars, db, hist>>

\* the wait ends without ETIMEDOUT (a wake-up, which may be spurious); the
\* mutex is taken again and the slots are scanned
g_woken ==
  /\ pc = "g_blocked"
  /\ pool_mutex = {}
  /\ pool_mutex' = PoolLocked(MainThread)
  /\ Goto("g_rescan")
  /\ UNCHANGED <<batch_size, current_batch, shutdown_requested, poolVars, stats_mutex,
                 batch_mutex, batchVars, stats, workVars, ctx_freed, loc,
                 envVars, db, hist>>

\* the wait ends with ETIMEDOUT: the mutex is taken again, released, and
\* get_connection returns NULL
g_timedout ==
  /\ pc = "g_blocked"
  /\ now >= loc.timeout
  /\ pool_mutex = {}
  /\ loc' = [loc EXCEPT !.conn = 0, !.timeout = 0]
  /\ Return
  /\ UNCHANGED <<batch_size, current_batch, shutdown_requested, poolVars, lockVars,
                 batchVars, stats, workVars, ctx_freed, envVars, db, hist>>

(***************************************************************************)
(* batch.c: flush_batch.  The caller's *processed and *failed are          *)
(* loc.processed and loc.failed.                                           *)
(***************************************************************************)
\* the bytes in the buffer below position n
BufferBytes(buf, n) == { buf[k] : k \in 0 .. (n - 1) }

\* the bytes of the next chunk: at most COPY_CHUNK_SIZE of what remains
ChunkSize(pos, written) ==
  IF pos - written > COPY_CHUNK_SIZE THEN COPY_CHUNK_SIZE ELSE pos - written

\* a chunk that is always taken from the start of the buffer
ChunkFromStart(buf, written, size) == [k \in 1 .. size |-> buf[k - 1]]

\* ctx->batch_buffer + total_written, chunk_size
Chunk(buf, written, size) == [k \in 1 .. size |-> buf[written + k - 1]]

\* flush_batch returns `okv': the result enters the history, the locals die
FlushReturns(okv, lost_bytes) ==
  /\ hist' = [hist EXCEPT
                !.sum_processed = @ + loc.processed,
                !.failed_bytes = IF okv THEN @ ELSE @ \cup lost_bytes,
                !.acq = <<>>,
                !.bp_run = 0, !.slept_ns = 0,
                !.flush_log = IF loc.entry_pos > 0
                              THEN Append(@, [ok |-> okv,
                                              processed |-> loc.processed])
                              ELSE @]
  /\ loc' = [loc EXCEPT !.ok = okv, !.conn = 0, !.success = TRUE,
                        !.total_written = 0, !.retry_count = 0,
                        !.had_error = FALSE, !.entry_pos = 0,
                        !.md_slot = 0, !.md_error = ""]
  /\ Return

\* if (ctx->current_batch_pos == 0) return true;
\* PGconn *conn = get_connection(ctx);
f_entry ==
  /\ pc = "f_entry"
  /\ IF current_batch_pos = 0
     THEN FlushReturns(TRUE, {})
     ELSE /\ Call("g_lock", "f_got")
          /\ loc' = [loc EXCEPT !.entry_pos = current_batch_pos]
          /\ hist' = hist
  /\ UNCHANGED <<batch_size, current_batch, shutdown_requested, poolVars, lockVars,
                 batchVars, stats, workVars, ctx_freed, envVars, db>>

\* if (!conn) return false;
f_noconn ==
  /\ pc = "f_got"
  /\ loc.conn = 0
  /\ FlushReturns(FALSE, BufferBytes(batch_buffer, loc.entry_pos))
  /\ UNCHANGED <<batch_size, current_batch, shutdown_requested, poolVars, lockVars,
                 batchVars, stats, workVars, ctx_freed, envVars, db>>

\* success = true; *processed = 0; *failed = 0; PQexec(conn, "BEGIN")
f_begin(res) ==
  /\ pc = "f_got"
  /\ loc.conn # 0
  /\ IF res = "ok"
     THEN /\ db' = [db EXCEPT !.copy = <<>>]
          /\ loc' = [loc EXCEPT !.success = TRUE, !.processed = 0,
                                !.failed = 0]
          /\ Goto("f_copy")
     ELSE /\ db' = db
          /\ loc' = [loc EXCEPT !.success = TRUE, !.processed = 0,
                                !.failed = 0,
                                !.md_error = "pq",
                                !.md_slot = find_pool_connection(pool, loc.conn)]
          /\ Call("md_lock_stats", "f_early")
  /\ UNCHANGED <<batch_size, current_batch, shutdown_requested, poolVars, lockVars,
                 batchVars, stats, workVars, ctx_freed, envVars, hist>>

\* PQexecPrepared(conn, "copy_stmt", ...); on failure ROLLBACK, mark dead
f_copy(res) ==
  /\ pc = "f_copy"
  /\ IF res = "ok"
     THEN /\ loc' = [loc EXCEPT !.total_written = 0, !.retry_count = 0]
          /\ Goto("f_chunk")
     ELSE /\ loc' = [loc EXCEPT
                       !.md_error = "pq",
                       !.md_slot = find_pool_connection(pool, loc.conn)]
          /\ Call("md_lock_stats", "f_early")
  /\ UNCHANGED <<batch_size, current_batch, shutdown_requested, poolVars, lockVars,
                 batchVars, stats, workVars, ctx_freed, envVars, db, hist>>

\* the return false that follows mark_connection_dead after a failed BEGIN
\* or a failed start of the COPY
f_early ==
  /\ pc = "f_early"
  /\ FlushReturns(FALSE, BufferBytes(batch_buffer, loc.entry_pos))
  /\ UNCHANGED <<batch_size, current_batch, shutdown_requested, poolVars, lockVars,
                 batchVars, stats, workVars, ctx_freed, envVars, db>>

\* retry_count = 0 after a chunk was written
RetryCountAfterWritten(n) == 0

\* a loop that gives up at the max_retries-th retry
RetriesExceededEarly(n) == n >= max_retries

\* if (retry_count > max_retries)
RetriesExceeded(n) == n > max_retries

\* ts.tv_nsec of the nanosleep that follows the retry_count-th retry
BackoffNsec(retry_count) ==
  1000000 * Shl(1, IF retry_count < MAX_BACKOFF_ATTEMPTS THEN retry_count
                   ELSE MAX_BACKOFF_ATTEMPTS)

\* PQputCopyData returned 1.  hist.bp_run counts the results 0 since the
\* last result 1 of this flush, hist.bp_tolerated says that this flush went
\* on after a run of max_retries of them, hist.slept_ns is the length of the
\* nanosleep made since the last result 1.
f_chunk_written ==
  /\ pc = "f_chunk"
  /\ loc.total_written < current_batch_pos
  /\ LET size == ChunkSize(current_batch_pos, loc.total_written) IN
       /\ db' = [db EXCEPT
                   !.copy = @ \o Chunk(batch_buffer, loc.total_written, size)]
       /\ loc' = [loc EXCEPT
                    !.total_written = @ + size,
                    !.retry_count = RetryCountAfterWritten(@)]
  /\ hist' = [hist EXCEPT !.bp_run = 0, !.slept_ns = 0,
                          !.bp_tolerated = @ \/ hist.bp_run = max_retries]
  /\ Goto("f_chunk")
  /\ UNCHANGED <<batch_size, current_batch, shutdown_requested, poolVars, lockVars,
                 batchVars, stats, workVars, ctx_freed, envVars>>

\* PQputCopyData returned 0: count the retry, give up after max_retries,
\* else nanosleep and try the same chunk again
f_chunk_full ==
  /\ pc = "f_chunk"
  /\ loc.total_written < current_batch_pos
  /\ IF RetriesExceeded(loc.retry_count + 1)
     THEN /\ loc' = [loc EXCEPT
                       !.retry_count = @ + 1, !.success = FALSE,
                       !.md_error = "retries",
                       !.md_slot = find_pool_connection(pool, loc.conn)]
          /\ hist' = [hist EXCEPT !.bp_run = @ + 1]
          /\ Call("md_lock_stats", "f_finish")
     ELSE /\ loc' = [loc EXCEPT !.retry_count = @ + 1]
          /\ hist' = [hist EXCEPT
                        !.bp_run = @ + 1,
                        !.slept_ns = BackoffNsec(loc.retry_count + 1)]
          /\ Goto("f_chunk")
  /\ UNCHANGED <<batch_size, current_batch, shutdown_requested, poolVars, lockVars,
                 batchVars, stats, workVars, ctx_freed, envVars, db>>

\* PQputCopyData returned -1
f_chunk_error(lost) ==
  /\ pc = "f_chunk"
  /\ loc.total_written < current_batch_pos
  /\ handles' = Broken(handles, loc.conn, lost)
  /\ loc' = [loc EXCEPT !.success = FALSE, !.md_error = "pq",
                        !.md_slot = find_pool_connection(pool, loc.conn)]
  /\ hist' = [hist EXCEPT !.bp_tolerated = FALSE]
  /\ Call("md_lock_stats", "f_finish")
  /\ UNCHANGED <<batch_size, current_batch, shutdown_requested, pool, healthy_connections,
                 lockVars, batchVars, stats, workVars, ctx_freed, envVars,
                 db>>

\* the loop ends: everything is written
f_chunk_done ==
  /\ pc = "f_chunk"
  /\ ~(loc.total_written < current_batch_pos)
  /\ hist' = [hist EXCEPT !.bp_tolerated = FALSE]
  /\ Goto("f_finish")
  /\ UNCHANGED <<batch_size, current_batch, shutdown_requested, poolVars, lockVars,
                 batchVars, stats, workVars, ctx_freed, loc, envVars, db>>

FinishResults == {"committed", "end_failed", "commit_failed"}

\* *failed and *processed as flush_batch sets them after the COPY
FailedBytes(success, pos, written, failed) ==
  IF ~success THEN pos - written ELSE failed

\* PQputCopyEnd and COMMIT when the loop succeeded; ROLLBACK and *failed
\* otherwise; *processed = total_written
f_finish(res, lost) ==
  /\ pc = "f_finish"
  /\ LET success == loc.success /\ res = "committed" IN
       /\ db' = [db EXCEPT
                   !.copy = <<>>,
                   !.committed = IF success THEN @ \o db.copy ELSE @]
       /\ handles' = IF loc.success /\ ~success
                     THEN Broken(handles, loc.conn, lost) ELSE handles
       /\ loc' = [loc EXCEPT
                    !.success = success,
                    !.failed = FailedBytes(success, current_batch_pos,
                                           loc.total_written, loc.failed),
                    !.processed = loc.total_written]
  /\ hist' = [hist EXCEPT !.bp_tolerated = FALSE]
  /\ Goto("f_stats_lock")
  /\ UNCHANGED <<batch_size, current_batch, shutdown_requested, pool, healthy_connections,
                 lockVars, batchVars, stats, workVars, ctx_freed, envVars>>

f_stats_lock ==
  /\ pc = "f_stats_lock"
  /\ stats_mutex = {}
  /\ stats_mutex' = {MainThread}
  /\ Goto("f_stats_body")
  /\ UNCHANGED <<batch_size, current_batch, shutdown_requested, poolVars, pool_mutex,
                 batch_mutex, batchVars, stats, workVars, ctx_freed, loc,
                 envVars, db, hist>>

\* the stats update, then return_connection(ctx, conn, !success)
f_stats_body ==
  /\ pc = "f_stats_body"
  /\ stats' = [stats EXCEPT
                 !.batches_processed = @ + 1,
                 !.total_bytes = @ + loc.total_written,
                 !.errors = IF loc.failed > 0 THEN @ + 1 ELSE @]
  /\ stats_mutex' = {}
  /\ loc' = [loc EXCEPT !.had_error = ~loc.success]
  /\ Call("rc_lock", "f_reset")
  /\ UNCHANGED <<batch_size, current_batch, shutdown_requested, poolVars, pool_mutex,
                 batch_mutex, batchVars, workVars, ctx_freed, envVars, db,
                 hist>>

\* ctx->current_batch_pos = 0; return success;
f_reset ==
  /\ pc = "f_reset"
  /\ current_batch_pos' = 0
  /\ FlushReturns(loc.success, BufferBytes(batch_buffer, loc.entry_pos))
  /\ UNCHANGED <<batch_size, current_batch, shutdown_requested, poolVars, lockVars,
                 batch_buffer, stats, workVars, ctx_freed, envVars, db>>

(***************************************************************************)
(* worker.c: stop_workers.                                                 *)
(***************************************************************************)
\* a store that flips the flag instead of setting it
StoreShutdownToggle(old) == ~old

\* atomic_store(&ctx->shutdown_requested, true)
StoreShutdown(old) == TRUE

sw_store ==
  /\ pc = "sw_store"
  /\ shutdown_requested' = StoreShutdown(shutdown_requested)
  /\ loc' = [loc EXCEPT !.i = 1]
  /\ Goto("sw_join")
  /\ UNCHANGED <<batch_size, current_batch, poolVars, lockVars, batchVars, stats, workVars,
                 ctx_freed, envVars, db, hist>>

\* worker loc.i: pthread_join returns once the thread has ended
sw_join ==
  /\ pc = "sw_join"
  /\ loc.i <= worker_count
  /\ IF workers[loc.i].running
     THEN /\ wpc[loc.i] = "w_exit"
          /\ workers' = [workers EXCEPT ![loc.i].running = FALSE]
     ELSE workers' = workers
  /\ loc' = [loc EXCEPT !.i = @ + 1]
  /\ Goto("sw_join")
  /\ UNCHANGED <<batch_size, current_batch, shutdown_requested, poolVars, lockVars,
                 batchVars, stats, worker_count, wpc, ctx_freed, envVars,
                 db, hist>>

\* a stop_workers that frees the array and keeps the pointer
WorkersKept(ws) == ws

\* free(ctx->workers); ctx->workers = NULL  (<<>> stands for NULL)
WorkersFreed(ws) == <<>>

\* free(ctx->workers); ctx->workers = NULL; ctx->worker_count = 0;
sw_free ==
  /\ pc = "sw_join"
  /\ loc.i > worker_count
  /\ workers' = WorkersFreed(workers)
  /\ worker_count' = 0
  /\ loc' = [loc EXCEPT !.i = 0]
  /\ Return
  /\ UNCHANGED <<batch_size, current_batch, shutdown_requested, poolVars, lockVars,
                 batchVars, stats, wpc, ctx_freed, envVars, db, hist>>

(***************************************************************************)
(* init.c: request_shutdown and cleanup_hydrant.                           *)
(***************************************************************************)
rs_store ==
  /\ pc = "rs_store"
  /\ shutdown_requested' = StoreShutdown(shutdown_requested)
  /\ Call("sw_store", "rs_lock_batch")
  /\ UNCHANGED <<batch_size, current_batch, poolVars, lockVars, batchVars, stats, workVars,
                 ctx_freed, loc, envVars, db, hist>>

rs_lock_batch ==
  /\ pc = "rs_lock_batch"
  /\ batch_mutex = {}
  /\ batch_mutex' = {MainThread}
  /\ Goto("rs_check")
  /\ UNCHANGED <<batch_size, current_batch, shutdown_requested, poolVars, pool_mutex,
                 stats_mutex, batchVars, stats, workVars, ctx_freed, loc,
                 envVars, db, hist>>

\* a request_shutdown that flushes whatever the position is
ResidualAlways(pos) == TRUE

\* if (ctx->current_batch_pos > 0)
ResidualPending(pos) == pos > 0

\* if (ctx->current_batch_pos > 0) flush_batch(ctx, &processed, &failed)
rs_check ==
  /\ pc = "rs_check"
  /\ IF ResidualPending(current_batch_pos)
     THEN /\ Call("f_entry", "rs_flushed")
          /\ loc' = [loc EXCEPT !.processed = 0, !.failed = 0]
          /\ hist' = [hist EXCEPT
                        !.residual = BufferBytes(batch_buffer,
                                                 current_batch_pos)]
     ELSE Goto("rs_unlock") /\ loc' = loc /\ hist' = hist
  /\ UNCHANGED <<batch_size, current_batch, shutdown_requested, poolVars, lockVars,
                 batchVars, stats, workVars, ctx_freed, envVars, db>>

\* if (!flush_batch(...)) structured_log("ERROR", "Failed to flush final
\* batch: %zu bytes lost", failed)
rs_flushed ==
  /\ pc = "rs_flushed"
  /\ hist' = IF ~loc.ok THEN [hist EXCEPT !.shutdown_loss = loc.failed]
                        ELSE hist
  /\ Goto("rs_unlock")
  /\ UNCHANGED <<batch_size, current_batch, shutdown_requested, poolVars, lockVars,
                 batchVars, stats, workVars, ctx_freed, loc, envVars, db>>

\* pthread_mutex_unlock(&ctx->batch_mutex); cleanup_hydrant(ctx);
rs_unlock ==
  /\ pc = "rs_unlock"
  /\ batch_mutex' = {}
  /\ loc' = [loc EXCEPT !.processed = 0, !.failed = 0]
  /\ Call("gds_lock_stats", "cl_stop")
  /\ UNCHANGED <<batch_size, current_batch, shutdown_requested, poolVars, pool_mutex,
                 stats_mutex, batchVars, stats, workVars, ctx_freed,
                 envVars, db, hist>>

\* cleanup_hydrant: stop_workers(ctx) after the final status
cl_stop ==
  /\ pc = "cl_stop"
  /\ Call("sw_store", "cl_lock_pool")
  /\ UNCHANGED <<batch_size, current_batch, shutdown_requested, poolVars, lockVars,
                 batchVars, stats, workVars, ctx_freed, loc, envVars, db,
                 hist>>

cl_lock_pool ==
  /\ pc = "cl_lock_pool"
  /\ pool_mutex = {}
  /\ pool_mutex' = {MainThread}
  /\ Goto("cl_finish")
  /\ UNCHANGED <<batch_size, current_batch, shutdown_requested, poolVars, stats_mutex,
                 batch_mutex, batchVars, stats, workVars, ctx_freed, loc,
                 envVars, db, hist>>

\* every connection is finished and set to NULL; the mutexes are destroyed
\* and the context is freed; request_shutdown returns
cl_finish ==
  /\ pc = "cl_finish"
  /\ handles' = [h \in DOMAIN handles |->
                   IF \E i \in Slots : pool[i].conn = h
                   THEN PQfinish(handles, h)[h] ELSE handles[h]]
  /\ pool' = [i \in Slots |-> [pool[i] EXCEPT !.conn = 0]]
  /\ pool_mutex' = {}
  /\ ctx_freed' = TRUE
  /\ Return
  /\ UNCHANGED <<batch_size, current_batch, shutdown_requested, healthy_connections,
                 stats_mutex, batch_mutex, batchVars, stats, workVars, loc,
                 envVars, db, hist>>

(***************************************************************************)
(* worker.c: worker_thread.                                                *)
(***************************************************************************)
\* while (!atomic_load(&ctx->shutdown_requested))
w_loop(w) ==
  /\ wpc[w] = "w_loop"
  /\ wpc' = [wpc EXCEPT ![w] = IF shutdown_requested THEN "w_exit"
                               ELSE "w_lock_stats"]
  /\ UNCHANGED <<batch_size, current_batch, shutdown_requested, poolVars, lockVars,
                 batchVars, stats, workers, worker_count, ctx_freed, pc,
                 stack, loc, envVars, db, hist>>

\* a worker that counts each of its iterations as a batch
WorkerStatsCounts(st, t) == [st EXCEPT !.batches_processed = @ + 1]

\* if (now - ctx->stats.last_batch > 60) { ...; ctx->stats.last_batch = now; }
WorkerStats(st, t) ==
  IF t - st.last_batch > 60 THEN [st EXCEPT !.last_batch = t] ELSE st

\* stats_mutex is taken; the status line is due after 60 seconds
w_lock_stats(w) ==
  /\ wpc[w] = "w_lock_stats"
  /\ stats_mutex = {}
  /\ stats_mutex' = {w}
  /\ stats' = WorkerStats(stats, now)
  /\ wpc' = [wpc EXCEPT ![w] = "w_lock_pool"]
  /\ UNCHANGED <<batch_size, current_batch, shutdown_requested, poolVars, pool_mutex,
                 batch_mutex, batchVars, workers, worker_count, ctx_freed,
                 pc, stack, loc, envVars, db, hist>>

w_lock_pool(w) ==
  /\ wpc[w] = "w_lock_pool"
  /\ pool_mutex = {}
  /\ pool_mutex' = {w}
  /\ wpc' = [wpc EXCEPT ![w] = "w_count"]
  /\ UNCHANGED <<batch_size, current_batch, shutdown_requested, poolVars, stats_mutex,
                 batch_mutex, batchVars, stats, workers, worker_count,
                 ctx_freed, pc, stack, loc, envVars, db, hist>>

\* the slots are counted, both locks released, sleep(1)
w_count(w) ==
  /\ wpc[w] = "w_count"
  /\ pool_mutex' = {}
  /\ stats_mutex' = {}
  /\ wpc' = [wpc EXCEPT ![w] = "w_loop"]
  /\ UNCHANGED <<batch_size, current_batch, shutdown_requested, poolVars, batch_mutex,
                 batchVars, stats, workers, worker_count, ctx_freed, pc,
                 stack, loc, envVars, db, hist>>

(***************************************************************************)
(* The clock.                                                              *)
(***************************************************************************)
\* `now' counts the seconds since the time(NULL) that init_hydrant stores
\* in stats.start_time
Tick ==
  /\ pc # "init_check"
  /\ now < MaxTime
  /\ now' = now + 1
  /\ UNCHANGED <<batch_size, current_batch, shutdown_requested, poolVars, lockVars,
                 batchVars, stats, workVars, ctx_freed, pc, stack, loc,
                 inpos, eof, db, hist>>

(***************************************************************************)
(* The program.                                                            *)
(***************************************************************************)
MainStep ==
  \/ init_check
  \/ main_file \/ main_nofile \/ main_stdin
  \/ main_fread \/ main_add1 \/ main_flushed \/ main_retry \/ main_add2
  \/ main_status \/ main_shutdown
  \/ pi_fread \/ pi_add1 \/ pi_flushed \/ pi_retry \/ pi_add2 \/ pi_check
  \/ pi_final \/ pi_final_flushed \/ pi_status \/ pi_ret
  \/ add_lock \/ add_body
  \/ ubs_lock \/ ubs_body
  \/ gds_lock_stats \/ gds_lock_pool \/ gds_body
  \/ md_lock_stats \/ md_lock_pool \/ md_relock_blocks \/ md_relock_fails
  \/ md_body
  \/ rc_lock \/ rc_body \/ rc_signal
  \/ (\E outcome \in ConnOutcomes : r_entry(outcome))
  \/ r_fail_lock \/ r_fail_body \/ r_ok_lock \/ r_ok_body
  \/ g_lock \/ g_scan \/ g_second \/ g_next \/ g_wait \/ g_timedwait
  \/ g_woken \/ g_timedout
  \/ f_entry \/ f_noconn
  \/ (\E res \in {"ok", "error"} : f_begin(res))
  \/ (\E res \in {"ok", "error"} : f_copy(res))
  \/ f_early
  \/ f_chunk_written \/ f_chunk_full
  \/ (\E lost \in BOOLEAN : f_chunk_error(lost))
  \/ f_chunk_done
  \/ (\E res \in FinishResults, lost \in BOOLEAN : f_finish(res, lost))
  \/ f_stats_lock \/ f_stats_body \/ f_reset
  \/ sw_store \/ sw_join \/ sw_free
  \/ rs_store \/ rs_lock_batch \/ rs_check \/ rs_flushed \/ rs_unlock
  \/ cl_stop \/ cl_lock_pool \/ cl_finish

WorkerStep == \E w \in Workers :
  w_loop(w) \/ w_lock_stats(w) \/ w_lock_pool(w) \/ w_count(w)

Next == MainStep \/ WorkerStep \/ Tick

Spec == Init /\ [][Next]_vars

(***************************************************************************)
(* A caller that invokes request_shutdown(ctx) a second time after the     *)
(* first call has returned.  cleanup_hydrant has freed ctx, so the store   *)
(* to ctx->shutdown_requested that opens request_shutdown is a use of      *)
(* released memory: the call either faults there or runs on the stale      *)
(* contents of the context.                                                *)
(***************************************************************************)
rs_again ==
  /\ pc = "main_exit"
  /\ ctx_freed
  /\ ~hist.second_call
  /\ hist' = [hist EXCEPT !.second_call = TRUE]
  /\ Call("rs_store", "main_exit")
  /\ UNCHANGED <<batch_size, current_batch, shutdown_requested, poolVars, lockVars,
                 batchVars, stats, workVars, ctx_freed, loc, envVars, db>>

\* atomic_store(&ctx->shutdown_requested, true) on the freed context faults
rs_fault ==
  /\ pc = "rs_store"
  /\ ctx_freed
  /\ pc' = "fault"
  /\ UNCHANGED <<batch_size, current_batch, shutdown_requested, poolVars, lockVars,
                 batchVars, stats, workVars, ctx_freed, stack, loc, envVars,
                 db, hist>>

NextTwice == Next \/ rs_again \/ rs_fault

SpecTwice == Init /\ [][NextTwice]_vars

(***************************************************************************)
(* request_shutdown called by a thread other than the producer while the   *)
(* producer is at a blocking call of get_connection, return_connection or  *)
(* mark_connection_dead and cannot go on.  The call opens with the store   *)
(* to the shutdown flag; the caller then waits in stop_workers'            *)
(* pthread_join for the workers, and what it does once they have ended is  *)
(* not followed.  The threads are scheduled by the operating system, and   *)
(* the workers sleep a second between two iterations: a thread that can    *)
(* take a step again and again, for instance one that waits for a mutex    *)
(* which is free again and again, takes one.  The runs followed are those  *)
(* that start with the first connection refused and the smallest batch     *)
(* capacity.                                                               *)
(***************************************************************************)
\* the steps of worker w
WorkerOf(w) == w_loop(w) \/ w_lock_stats(w) \/ w_lock_pool(w) \/ w_count(w)

\* pthread_mutex_lock and pthread_cond_timedwait in get_connection,
\* recover_dead_connection, return_connection and mark_connection_dead
BlockingLabels ==
  {"g_lock", "g_blocked", "r_fail_lock", "r_ok_lock", "rc_lock",
   "md_lock_stats", "md_lock_pool", "self_deadlock"}

\* atomic_store(&ctx->shutdown_requested, true) by the other thread
async_shutdown ==
  /\ pc \in BlockingLabels
  /\ ~ENABLED MainStep
  /\ ~shutdown_requested
  /\ shutdown_requested' = StoreShutdown(shutdown_requested)
  /\ UNCHANGED <<batch_size, current_batch, poolVars, lockVars, batchVars,
                 stats, workVars, ctx_freed, pc, stack, loc, envVars, db,
                 hist>>

InitDegraded ==
  /\ Init
  /\ batch_size = MIN_BATCH_SIZE
  /\ pool[0].state = "DEAD" /\ pool[0].last_error = "connect"

NextAsync == Next \/ async_shutdown

SpecAsync ==
  /\ InitDegraded
  /\ [][NextAsync]_vars
  /\ SF_vars(MainStep)
  /\ \A w \in Workers : SF_vars(WorkerOf(w))

\* the program alone under the same scheduling, from the same starts
SpecFair ==
  /\ InitDegraded
  /\ [][Next]_vars
  /\ SF_vars(MainStep)
  /\ \A w \in Workers : SF_vars(WorkerOf(w))

(***************************************************************************)
(* init_hydrant from its first statement to its return, with the           *)
(* configuration taken from the environment (config_path is NULL).  The    *)
(* history also keeps the value of HYDRANT_BATCH_SIZE (<<>> when it is not *)
(* set) and the number of WARN records init_hydrant has written.           *)
(***************************************************************************)
\* the context after calloc, before load_config
InitStart ==
  /\ batch_size = 0
  /\ shutdown_requested = FALSE
  /\ pool = [i \in Slots |->
               [conn |-> 0, state |-> "AVAILABLE", failed_attempts |-> 0,
                recovery_attempts |-> 0, next_recovery_attempt |-> 0,
                last_error |-> ""]]
  /\ handles = <<>>
  /\ healthy_connections = 0
  /\ pool_mutex = {} /\ stats_mutex = {} /\ batch_mutex = {}
  /\ batch_buffer = <<>>
  /\ current_batch_pos = 0
  /\ current_batch = 0
  /\ stats = [ total_bytes |-> 0, batches_processed |-> 0, errors |-> 0,
               connection_resets |-> 0, connection_failures |-> 0,
               start_time |-> 0, last_batch |-> 0 ]
  /\ workers = <<>>
  /\ worker_count = 0
  /\ ctx_freed = FALSE
  /\ pc = "load_config" /\ stack = <<>> /\ loc = NoLocals
  /\ wpc = [w \in Workers |-> "w_unstarted"]
  /\ now = 0 /\ inpos = 0 /\ eof = FALSE
  /\ db = [copy |-> <<>>, committed |-> <<>>]
  /\ hist = NoHistory @@ [requested |-> <<>>, warns |-> 0]

\* ctx->config = load_config(NULL)
lc_getenv(env) ==
  /\ pc = "load_config"
  /\ batch_size' = load_config(env)
  /\ hist' = [hist EXCEPT !.requested = env]
  /\ Goto("init_clamp")
  /\ UNCHANGED <<current_batch, shutdown_requested, poolVars, lockVars,
                 batchVars, stats, workVars, ctx_freed, loc, envVars, db>>

\* the WARN records init_hydrant writes when it clamps config->batch_size
ClampWarns(b) == IF b < MIN_BATCH_SIZE \/ b > MAX_BATCH_SIZE THEN 1 ELSE 0

\* the two tests of config->batch_size against MIN_ and MAX_BATCH_SIZE
init_clamp ==
  /\ pc = "init_clamp"
  /\ batch_size' = ClampBatchSize(batch_size)
  /\ hist' = [hist EXCEPT !.warns = @ + ClampWarns(batch_size)]
  /\ Goto("init_pool")
  /\ UNCHANGED <<current_batch, shutdown_requested, poolVars, lockVars,
                 batchVars, stats, workVars, ctx_freed, loc, envVars, db>>

\* the loop over the slots; o[i] is what PQconnectdb and PQprepare give for
\* slot i
init_pool(o) ==
  /\ pc = "init_pool"
  /\ pool' = [i \in Slots |-> InitSlot(o[i], i + 1)]
  /\ handles' = [h \in 1 .. MAX_POOL_SIZE |-> InitHandle(o[h - 1])]
  /\ healthy_connections' = InitHealthy(pool')
  /\ batch_buffer' = [k \in 0 .. (batch_size - 1) |-> 0]
  /\ Goto("init_check")
  /\ UNCHANGED <<batch_size, current_batch, shutdown_requested, lockVars,
                 current_batch_pos, stats, workVars, ctx_freed, loc, envVars,
                 db, hist>>

NextLoad ==
  \/ (\E env \in EnvBatchSizes : lc_getenv(env))
  \/ init_clamp
  \/ (\E o \in [Slots -> ConnOutcomes] : init_pool(o))
  \/ init_check
  \/ gds_lock_stats \/ gds_lock_pool \/ gds_body
  \/ cl_stop \/ sw_store \/ sw_free \/ cl_lock_pool \/ cl_finish

SpecLoad == InitStart /\ [][NextLoad]_vars

(***************************************************************************)
(* Properties.                                                             *)
(***************************************************************************)
\* the slots counted as healthy: neither DEAD nor PERMANENT_FAILURE
LiveSlots == { i \in Slots : pool[i].state \notin {"DEAD", "PERMANENT_FAILURE"} }

\* the places flush_batch returns to
FlushReturnSites ==
  {"main_flushed", "pi_flushed", "pi_final_flushed", "rs_flushed"}

\* the places add_to_batch returns to
AddReturnSites == {"main_add1", "main_add2", "pi_add1", "pi_add2"}

\* return_connection is running, or has returned to flush_batch
InRelease ==
  \/ pc \in {"rc_lock", "rc_body", "rc_signal", "f_reset"}
  \/ \E k \in 1 .. Len(stack) : stack[k] = "rc_signal"

\* the main thread owns the handle get_connection returned to it and has
\* not yet given it to return_connection
Holding == loc.conn # 0 /\ ~InRelease /\ pc \notin FlushReturnSites

\* C1: whenever no thread holds the pool lock, healthy_connections equals
\* the number of slots that are neither DEAD nor PERMANENT_FAILURE.
C1_HealthyCountsLiveSlots ==
  (pool_mutex = {}) => healthy_connections = Cardinality(LiveSlots)

\* C2: every return of flush_batch leaves current_batch_pos at zero, the
\* returns for no connection, a failed BEGIN and a failed start of the COPY
\* included.
C2_FlushResetsPosition ==
  pc \in FlushReturnSites => current_batch_pos = 0

\* C3: a slot in PERMANENT_FAILURE is in PERMANENT_FAILURE after every step
\* of every thread: no acquire takes it, no recovery re-opens it, no release
\* and no mark_connection_dead changes its state.
C3_PermanentFailureStays ==
  [][\A i \in Slots : pool[i].state = "PERMANENT_FAILURE"
                        => pool'[i].state = "PERMANENT_FAILURE"]_vars

\* a quarantined slot whose connection object answers CONNECTION_OK is in
\* the pool while get_connection scans the slots
C3_Witness ==
  /\ pc \in {"g_first", "g_rescan"}
  /\ \E i \in Slots : /\ pool[i].state = "PERMANENT_FAILURE"
                      /\ handles[pool[i].conn].status = "ok"

C5_ProcessedEqualsCommitted ==
  pc \in FlushReturnSites => hist.sum_processed = Len(db.committed)

\* C6: no byte that was in the buffer of a flush that returned false is
\* sent to the database by a later flush.
C6_FailedBytesNotResubmitted ==
  Range(db.copy) \cap hist.failed_bytes = {}

\* C7: return_connection with had_error, the slot reaching
\* CONNECTION_DEAD_THRESHOLD, returns to its caller; the thread is never
\* blocked for ever on the pool lock it holds itself.
C7_ReleaseNeverBlocksOnOwnLock ==
  pc # "self_deadlock"

\* C8: no thread waits for stats_mutex while holding pool_mutex, so the
\* producer and a worker never wait for each other's lock.
C8_NoLockCycle ==
  ~ /\ pool_mutex = {MainThread}
    /\ pc \in {"r_fail_lock", "r_ok_lock", "md_lock_stats"}
    /\ \E w \in Workers : stats_mutex = {w} /\ wpc[w] = "w_lock_pool"

\* C9: current_batch_pos never exceeds the configured batch_size.
C9_PositionWithinCapacity ==
  current_batch_pos <= batch_size

\* an append is attempted on a buffer that is exactly full
C9_Witness ==
  /\ pc = "add_body"
  /\ loc.bytes_read > 0
  /\ current_batch_pos = batch_size

\* C10: add_to_batch returns true exactly when size <= batch_size - pos;
\* then pos grows by size and the bytes lie contiguously from the old pos,
\* the rest of the buffer untouched; when it returns false pos and buffer
\* are unchanged.  (An append that fills the buffer exactly returns true
\* and a 1-byte append after it returns false.)
C10_AppendContract ==
  [][(pc = "add_body" /\ pc' # "add_body") =>
       LET size == loc.bytes_read
           pos  == current_batch_pos
           fits == size <= batch_size - pos
       IN /\ loc'.retval = fits
          /\ fits => /\ current_batch_pos' = pos + size
                     /\ \A k \in 0 .. (batch_size - 1) :
                          batch_buffer'[k] =
                            IF k >= pos /\ k < pos + size
                            THEN ReadBuf[k - pos + 1]
                            ELSE batch_buffer[k]
          /\ ~fits => /\ current_batch_pos' = pos
                      /\ batch_buffer' = batch_buffer]_vars

\* an append has filled the buffer exactly and the 1-byte append that
\* followed it has returned false
C10_Witness ==
  /\ pc \in AddReturnSites
  /\ loc.bytes_read = 1
  /\ ~loc.retval
  /\ current_batch_pos = batch_size

\* C11: a slot that is DEAD stays DEAD until a recovery of it succeeds or
\* it is quarantined; so the slot of a flush aborted by a PQputCopyData
\* error or by exhausted retries is DEAD when flush_batch returns.  The
\* only step that may take a slot out of DEAD is recover_dead_connection.
C11_DeadUntilRecovered ==
  [][\A i \in Slots :
       (pool[i].state = "DEAD" /\ pc # "r_entry")
         => pool'[i].state \in {"DEAD", "PERMANENT_FAILURE"}]_vars

\* the residual bytes request_shutdown found that no transaction committed
ResidualNotCommitted == hist.residual \ Range(db.committed)

\* C12: when request_shutdown found a residual buffer then, once its flush
\* is over, either every residual byte is committed or an ERROR record was
\* logged whose loss count is the number of residual bytes not committed.
C12_ResidualCommittedOrReported ==
  (pc = "rs_unlock" /\ hist.residual # {}) =>
    \/ ResidualNotCommitted = {}
    \/ hist.shutdown_loss = Cardinality(ResidualNotCommitted)

\* the positions of get_connection's wait loop
WaitLabels == {"g_timedwait", "g_blocked", "g_rescan"}

\* C13: get_connection waits against one absolute deadline, taken once
\* before the loop: no wake-up that finds no usable slot moves it, the
\* no-connection return is taken only when the deadline has passed, and it
\* can be taken as soon as the deadline has passed and the mutex is free.
C13_SingleDeadline ==
  [][/\ (pc \in WaitLabels /\ pc' \in WaitLabels)
          => loc'.timeout = loc.timeout
     /\ (pc = "g_blocked" /\ pc' = "f_got" /\ loc'.conn = 0)
          => now >= loc.timeout
     /\ (pc = "g_blocked" /\ now >= loc.timeout /\ pool_mutex = {})
          => ENABLED g_timedout]_vars

\* a wake-up at or after the deadline has found no usable slot
C13_Witness ==
  /\ pc = "g_rescan"
  /\ loc.timeout > 0
  /\ now >= loc.timeout
  /\ FirstUsable(pool, handles) = -1

\* C14: get_connection reports that there is no connection only once the
\* shutdown flag has been observed: while the flag is false it renews its
\* wait and never returns NULL.
C14_NoConnectionOnlyAfterShutdown ==
  (pc = "f_got" /\ loc.conn = 0) => shutdown_requested

\* C15: when every slot is DEAD and acquire returns no connection, flush
\* returns ok = false with processed = 0 and failed = the buffer size at
\* entry.
C15_NoConnectionReportsBufferLost ==
  [][(/\ pc = "f_got" /\ loc.conn = 0
      /\ \A i \in Slots : pool[i].state = "DEAD"
      /\ pc' \in FlushReturnSites)
       => (~loc'.ok /\ loc'.processed = 0 /\ loc'.failed = loc.entry_pos)]_vars

\* C16: when main has finished (request_shutdown has returned), every worker
\* thread has been joined and every connection of the pool is closed.
C16_ShutdownJoinsAndCloses ==
  pc = "main_exit" =>
    /\ \A w \in Workers : wpc[w] = "w_exit"
    /\ \A i \in Slots : pool[i].conn = 0
    /\ \A h \in DOMAIN handles : ~handles[h].open

C16_Witness ==
  /\ pc = "main_exit"
  /\ Len(handles) > MAX_POOL_SIZE
  /\ hist.sum_processed > 0

\* C17: request_shutdown is idempotent: a second call after the first has
\* returned completes without a second flush, without a second teardown and
\* without access to released resources.  Checked under SpecTwice.
ShutdownLabels ==
  {"rs_store", "rs_lock_batch", "rs_check", "rs_flushed", "rs_unlock",
   "cl_stop", "cl_lock_pool", "cl_finish"}

C17_SecondShutdownIsNoOp ==
  (hist.second_call /\ ctx_freed) => pc \notin ShutdownLabels \cup {"fault"}

\* C18: the shutdown flag is monotonic: it starts false, and once an
\* operation has set it no operation sets it back to false.
C18_ShutdownFlagMonotonic ==
  /\ ~shutdown_requested
  /\ [][shutdown_requested => shutdown_requested']_vars

\* stop_workers, called from cleanup_hydrant, has stored into a flag that
\* request_shutdown and the first stop_workers had already set
C18_Witness ==
  /\ shutdown_requested
  /\ pc = "sw_join"
  /\ stack # <<>>
  /\ Head(stack) = "cl_lock_pool"

\* C19: a failed recovery attempt, whichever failure ended it, leaves the
\* slot with a next_recovery_attempt at least
\* RECOVERY_BACKOFF_BASE_MS * 2^min(k, MAX_BACKOFF_ATTEMPTS) milliseconds
\* after the attempt, k being the slot's count of failed attempts, so that
\* the next attempt on the slot cannot come sooner.
C19_BackoffBetweenAttempts ==
  [][(/\ pc = "r_entry"
      /\ handles' # handles
      /\ pool'[loc.i].state = "DEAD")
       => (pool'[loc.i].next_recovery_attempt - now) * 1000
            >= RECOVERY_BACKOFF_BASE_MS
                 * Pow2(IF pool'[loc.i].recovery_attempts < MAX_BACKOFF_ATTEMPTS
                        THEN pool'[loc.i].recovery_attempts
                        ELSE MAX_BACKOFF_ATTEMPTS)]_vars

\* C20: a DEAD slot whose recovery_attempts has reached
\* MAX_RECOVERY_ATTEMPTS becomes PERMANENT_FAILURE at the next recover call
\* whose backoff has elapsed, and no connection is opened by that call; the
\* quarantine of a slot is logged exactly once; recovery_attempts never
\* exceeds MAX_RECOVERY_ATTEMPTS.
C20_QuarantineOnceAtLimit ==
  [][/\ \A i \in Slots : pool'[i].recovery_attempts <= MAX_RECOVERY_ATTEMPTS
     /\ \A i \in Slots :
          hist'.quarantine_logs[i]
            = IF pool'[i].state = "PERMANENT_FAILURE" THEN 1 ELSE 0
     /\ (/\ pc = "r_entry" /\ pc' # pc
         /\ pool[loc.i].state = "DEAD"
         /\ pool[loc.i].recovery_attempts = MAX_RECOVERY_ATTEMPTS
         /\ now >= pool[loc.i].next_recovery_attempt)
          => (pool'[loc.i].state = "PERMANENT_FAILURE" /\ handles' = handles)]_vars

C20_Witness ==
  /\ pc = "main_exit"
  /\ \E i \in Slots :
       /\ pool[i].state = "PERMANENT_FAILURE"
       /\ pool[i].recovery_attempts = MAX_RECOVERY_ATTEMPTS
       /\ hist.quarantine_logs[i] = 1

\* C21: mark_connection_dead on a slot already DEAD or PERMANENT_FAILURE
\* changes neither the healthy counter nor the slot (state and last_error)
\* and logs nothing; on an AVAILABLE or IN_USE slot it makes the slot DEAD,
\* logs once and decrements the healthy counter by one; nothing else ever
\* decrements the healthy counter.
C21_MarkDeadIdempotent ==
  [][/\ (/\ pc = "md_body" /\ pc' # pc
         /\ pool[loc.md_slot].state \in {"DEAD", "PERMANENT_FAILURE"})
          => /\ pool' = pool
             /\ healthy_connections' = healthy_connections
             /\ hist'.dead_logs = hist.dead_logs
     /\ (/\ pc = "md_body" /\ pc' # pc
         /\ pool[loc.md_slot].state \in {"AVAILABLE", "IN_USE"})
          => /\ pool'[loc.md_slot].state = "DEAD"
             /\ healthy_connections' = healthy_connections - 1
             /\ hist'.dead_logs = hist.dead_logs + 1
     /\ healthy_connections' < healthy_connections
          => /\ healthy_connections' = healthy_connections - 1
             /\ \E i \in Slots :
                  /\ pool[i].state \in {"AVAILABLE", "IN_USE"}
                  /\ pool'[i].state = "DEAD"]_vars

\* return_connection's mark_connection_dead has returned on a slot that
\* flush_batch had already marked dead when the chunk loop broke off
C21_Witness ==
  /\ pc = "rc_signal"
  /\ loc.md_error = "pq"
  /\ loc.total_written < current_batch_pos
  /\ pool[loc.md_slot].state = "DEAD"
  /\ hist.dead_logs >= 1

\* C22: get_connection followed by return_connection(conn, false) restores
\* the pool: the slot is AVAILABLE with failed_attempts = 0, the healthy
\* counter has the value it had before get_connection, and every other slot
\* is as it was.
ReleaseRestores(i) ==
  /\ pool'[i].state = "AVAILABLE"
  /\ pool'[i].failed_attempts = 0
  /\ healthy_connections' = hist.acq[2]
  /\ \A j \in Slots \ {i} : pool'[j] = hist.acq[1][j]

CleanRelease ==
  /\ pc = "rc_body" /\ pc' = "rc_signal"
  /\ ~loc.had_error
  /\ hist.acq # <<>>
  /\ find_pool_connection(pool, loc.conn) # -1

C23_BatchWrittenUnderBatchMutex ==
  [][/\ (batch_buffer' # batch_buffer \/ current_batch_pos' # current_batch_pos)
          => MainThread \in batch_mutex
     /\ (pc = "f_chunk" /\ db'.copy # db.copy) => MainThread \in batch_mutex]_vars

\* C24: require_ssl being set, no slot that is AVAILABLE or IN_USE holds a
\* connection that did not negotiate an encrypted session: at init and at
\* every recovery such a connection leaves the slot DEAD.
C24_NoPlaintextConnectionInService ==
  require_ssl =>
    \A i \in Slots :
      (pool[i].state \in {"AVAILABLE", "IN_USE"} /\ pool[i].conn # 0)
        => handles[pool[i].conn].ssl

\* a recovery has connected without encryption and the slot is still DEAD
C24_Witness ==
  \E i \in Slots :
    /\ pool[i].state = "DEAD"
    /\ pool[i].recovery_attempts > 0
    /\ pool[i].conn # 0
    /\ handles[pool[i].conn].status = "ok"
    /\ handles[pool[i].conn].open
    /\ ~handles[pool[i].conn].ssl

\* C25: when process_input has read input of total length T at batch
\* capacity C and every flush succeeded, it has performed ceil(T / C)
\* flushes, each but the last with processed = C, the last with
\* processed = T - C * (ceil(T / C) - 1), the processed values sum to T and
\* the errors counter is 0.
Ceil(t, c) == (t + c - 1) \div c

AllFlushesOk == \A k \in 1 .. Len(hist.flush_log) : hist.flush_log[k].ok

C25_FlushCountAndSizes ==
  (pc = "pi_ret" /\ AllFlushesOk) =>
    LET T == inpos
        C == batch_size
        n == Len(hist.flush_log)
    IN /\ n = Ceil(T, C)
       /\ \A k \in 1 .. (n - 1) : hist.flush_log[k].processed = C
       /\ n > 0 => hist.flush_log[n].processed = T - C * (n - 1)
       /\ hist.sum_processed = T
       /\ stats.errors = 0

\* two flushes, the last one of a partly filled buffer
C25_Witness ==
  /\ pc = "pi_ret"
  /\ AllFlushesOk
  /\ Len(hist.flush_log) = 2
  /\ hist.flush_log[2].processed < batch_size
  /\ inpos = MaxInput

\* C26: init_hydrant returns a context only if at least one slot is healthy;
\* then every slot whose connection failed to connect, is not encrypted or
\* has no prepared copy_stmt is DEAD, every other slot is AVAILABLE, and the
\* healthy counter is the number of AVAILABLE slots; with no healthy slot it
\* returns NULL and no worker was started.
InitSlotGood(i) ==
  /\ handles[pool[i].conn].status = "ok"
  /\ handles[pool[i].conn].ssl
  /\ handles[pool[i].conn].prepared

C26_InitOutcome ==
  /\ pc = "main" =>
       /\ healthy_connections >= 1
       /\ \A i \in Slots :
            pool[i].state = IF InitSlotGood(i) THEN "AVAILABLE" ELSE "DEAD"
       /\ healthy_connections
            = Cardinality({i \in Slots : pool[i].state = "AVAILABLE"})
       /\ \A w \in Workers : wpc[w] # "w_unstarted"
  /\ pc = "init_null" =>
       /\ \A i \in Slots : pool[i].state = "DEAD"
       /\ healthy_connections = 0
       /\ \A w \in Workers : wpc[w] = "w_unstarted"
       /\ worker_count = 0

C26_Witness ==
  /\ pc = "init_null"
  /\ ctx_freed
  /\ \E i \in Slots : pool[i].last_error = "connect"

\* C27: a second stop_workers, after the first has returned, joins no
\* thread, frees nothing again (it hands NULL to free) and leaves
\* worker_count = 0 and the worker array NULL.  In the program the second
\* call is the one cleanup_hydrant makes after request_shutdown's.
SecondStop ==
  /\ pc \in {"sw_store", "sw_join"}
  /\ stack = <<"cl_lock_pool", "main_exit">>

C27_StopWorkersIdempotent ==
  [][(SecondStop /\ pc' # pc)
       => /\ workers = <<>> /\ workers' = <<>>
          /\ worker_count = 0 /\ worker_count' = 0
          /\ wpc' = wpc]_vars

\* the second stop_workers has returned
C27_Witness ==
  /\ pc = "cl_lock_pool"
  /\ stack = <<"main_exit">>
  /\ workers = <<>>
  /\ worker_count = 0
  /\ \A w \in Workers : wpc[w] = "w_exit"

\* C28: a flush_batch that got a connection and returns false reports
\* *processed = the bytes written and *failed = the buffer size at entry
\* less the bytes written; one that returns true reports *failed = 0 and
\* *processed = the buffer size at entry.
C28_FlushReportsWrittenAndFailed ==
  [][(pc \in {"f_early", "f_reset"} /\ pc' \in FlushReturnSites)
       => IF loc'.ok
          THEN loc'.failed = 0 /\ loc'.processed = loc.entry_pos
          ELSE /\ loc'.processed = loc.total_written
               /\ loc'.failed = loc.entry_pos - loc.total_written]_vars

\* C29: each flush of the producer loop adds 1 to batches_processed and its
\* processed value to total_bytes, so that when process_input is done
\* total_bytes is the sum of the processed values of its flushes and
\* batches_processed is their number.
C29_StatsCountEachFlushOnce ==
  pc = "pi_ret" =>
    /\ stats.total_bytes = hist.sum_processed
    /\ AllFlushesOk => stats.batches_processed = Len(hist.flush_log)

\* C30: every failed recovery attempt, whichever check failed, adds one to
\* recovery_attempts, sets next_recovery_attempt to now plus the backoff of
\* the new attempt count, adds one to the connection-failure counter and
\* leaves the slot DEAD.
C30_FailedRecoveryBookkeeping ==
  [][/\ (pc = "r_entry" /\ hist'.failed_recoveries # hist.failed_recoveries)
          => /\ pool'[loc.i].state = "DEAD"
             /\ pool'[loc.i].recovery_attempts
                  = pool[loc.i].recovery_attempts + 1
             /\ pool'[loc.i].next_recovery_attempt
                  = now + RecoveryBackoff(pool'[loc.i].recovery_attempts)
     /\ (pc # "g_next" /\ pc' = "g_next")
          => stats'.connection_failures = hist'.failed_recoveries]_vars

\* C31: during one flush, the flush is aborted for backpressure (the slot
\* is handed to mark_connection_dead, success = false) exactly when more
\* than max_retries results 0 of PQputCopyData have come in a row with no
\* result 1 between them; a result 1 resets the count, so any total number
\* of results 0 is tolerated as long as no run exceeds max_retries; and the
\* sleep before the n-th consecutive retry is 2^min(n, MAX_BACKOFF_ATTEMPTS)
\* milliseconds.
BackoffMs(n) ==
  Pow2(IF n < MAX_BACKOFF_ATTEMPTS THEN n ELSE MAX_BACKOFF_ATTEMPTS)

C31_BackpressureAbort ==
  [][pc = "f_chunk" =>
       /\ (pc' = "md_lock_stats" /\ loc'.md_error = "retries")
             <=> hist'.bp_run > max_retries
       /\ (pc' = "md_lock_stats" /\ loc'.md_error = "retries")
             => /\ ~loc'.success
                /\ pool[loc'.md_slot].conn = loc.conn
       /\ db'.copy # db.copy
             => hist'.bp_run = 0 /\ loc'.retry_count = 0
       /\ (hist'.bp_run = hist.bp_run + 1 /\ pc' = "f_chunk")
             => /\ hist'.slept_ns = 1000000 * BackoffMs(hist'.bp_run)
                /\ loc'.total_written = loc.total_written]_vars

\* a flush gives up on its second chunk: max_retries results 0, a result 1,
\* then max_retries + 1 results 0
C31_Witness ==
  /\ pc = "md_lock_stats"
  /\ loc.md_error = "retries"
  /\ hist.bp_tolerated
  /\ hist.bp_run = max_retries + 1
  /\ loc.total_written > 0

\* C32: the chunks PQputCopyData accepted during one flush, concatenated in
\* the order they were accepted, are the first total_written bytes of the
\* buffer, which are in the order they were appended, and *processed is
\* their number; each chunk has at most COPY_CHUNK_SIZE bytes, a chunk
\* answered with 0 is tried again at the same offset, and no byte is skipped
\* or sent twice.
InCopy ==
  \/ pc \in {"f_chunk", "f_finish"}
  \/ \E k \in 1 .. Len(stack) : stack[k] = "f_finish"

BufferPrefix(n) == [k \in 1 .. n |-> batch_buffer[k - 1]]

C32_ChunksAreBufferPrefix ==
  /\ [](InCopy =>
         /\ db.copy = BufferPrefix(loc.total_written)
         /\ \A j, k \in 1 .. Len(db.copy) : j < k => db.copy[j] < db.copy[k])
  /\ [][/\ (pc = "f_chunk" /\ db'.copy # db.copy)
             => /\ Len(db'.copy) - Len(db.copy) \in 1 .. COPY_CHUNK_SIZE
                /\ \A k \in 1 .. Len(db.copy) : db'.copy[k] = db.copy[k]
        /\ (pc = "f_chunk" /\ hist'.bp_run = hist.bp_run + 1)
             => loc'.total_written = loc.total_written /\ db'.copy = db.copy
        /\ (pc = "f_finish" /\ pc' # pc)
             => loc'.processed = Len(db.copy)]_vars

\* a full buffer has gone out in two chunks, one of them after retries
C32_Witness ==
  /\ pc = "f_chunk"
  /\ loc.total_written = current_batch_pos
  /\ current_batch_pos > COPY_CHUNK_SIZE
  /\ hist.bp_tolerated
  /\ Len(db.copy) = current_batch_pos

\* C33: request_shutdown works in this order: the shutdown flag is set, all
\* workers are joined, the residual buffer is flushed (at most one flush,
\* only if the position is not zero, with batch_mutex held), then the
\* pool's connections are closed and the context is released; the residual
\* flush never runs after a connection of the pool was closed, and a
\* residual flush of r bytes that succeeds reports processed = r.
InRequestShutdown == Len(stack) > 0 /\ stack[Len(stack)] = "main_exit"

ResidualFlush == \E k \in 1 .. Len(stack) : stack[k] = "rs_flushed"

C33_ShutdownOrder ==
  /\ []((InRequestShutdown /\ pc # "rs_store") => shutdown_requested)
  /\ []((pc \in {"rs_lock_batch", "rs_check", "rs_flushed", "rs_unlock"}
           \/ ResidualFlush)
          => /\ \A w \in Workers : wpc[w] = "w_exit"
             /\ worker_count = 0)
  /\ []((pc \in {"rs_check", "rs_flushed"} \/ ResidualFlush)
          => /\ MainThread \in batch_mutex
             /\ ~ctx_freed
             /\ \A i \in Slots : /\ pool[i].conn # 0
                                 /\ handles[pool[i].conn].open)
  /\ [](ctx_freed => pc \in {"main_exit", "init_null"})
  /\ [][/\ (InRequestShutdown' /\ pc' = "f_entry" /\ pc # pc')
             => pc = "rs_check" /\ current_batch_pos > 0
        /\ (pc' = "rs_check" /\ pc # pc') => pc = "rs_lock_batch"
        /\ (pc = "rs_flushed" /\ pc # pc')
             => /\ pc' = "rs_unlock"
                /\ loc.ok => loc.processed = Cardinality(hist.residual)]_vars

\* the flush of a one-byte residual has returned true to request_shutdown
C33_Witness ==
  /\ pc = "rs_flushed"
  /\ loc.ok
  /\ Cardinality(hist.residual) = 1
  /\ loc.processed = 1
  /\ batch_size > 1

\* C34: every index update_batch_stats uses to read or write the ring of
\* batch stats is one of 0 .. batch_stats_size - 1, in every call, the first
\* call after init and the first call after the position wrapped to 0
\* included; the position is always one of these and advances by one modulo
\* batch_stats_size per call.
C34_RingIndexInRange ==
  /\ [](current_batch \in RingIndexes)
  /\ [][(pc = "ubs_body" /\ pc' # pc)
         => /\ current_batch \in RingIndexes
            /\ ReadsPrevious(stats'.batches_processed)
                 => PreviousBatch(current_batch) \in RingIndexes
            /\ current_batch' = (current_batch + 1) % BATCH_STATS_SIZE]_vars

\* C35: once the shutdown flag is true, every worker thread that was
\* started leaves its loop and ends (so that stop_workers' join returns),
\* under fair scheduling and whatever the producer is doing, a producer
\* blocked inside get_connection, return_connection or mark_connection_dead
\* included.
WorkersEnded == \A w \in Workers : wpc[w] \in {"w_exit", "w_unstarted"}

C35_WorkersEndAfterShutdown == shutdown_requested ~> WorkersEnded

\* C36: once init_hydrant has started the workers, a slot's state changes
\* only in a step of a thread that holds pool_mutex: every transition made
\* by get_connection, by recover_dead_connection called from it, by
\* return_connection and by mark_connection_dead.
C36_StateChangesUnderPoolMutex ==
  [][\A i \in Slots :
       pool'[i].state # pool[i].state
         => /\ MainThread \in pool_mutex
            /\ pc \in {"g_first", "g_rescan", "r_entry", "r_ok_body",
                        "rc_body", "md_body"}]_vars

\* return_connection has called mark_connection_dead with pool_mutex held
\* and the slot has become DEAD
C36_Witness ==
  /\ pc = "rc_signal"
  /\ pool[loc.md_slot].state = "DEAD"
  /\ pool[loc.md_slot].last_error = "pq"
  /\ pool[loc.md_slot].failed_attempts >= CONNECTION_DEAD_THRESHOLD
  /\ loc.md_error = "pq"
  /\ ~loc.success
  /\ loc.total_written = current_batch_pos

\* C37: an iteration of a worker's loop leaves every pool slot (state,
\* counters, connection), the healthy counter, the batch buffer and its
\* position and all running stats but the last_batch stamp as they were,
\* and it has released stats_mutex and pool_mutex when it sleeps.
WorkerMoves == wpc' # wpc /\ pc' = pc

C37_WorkersAreObservers ==
  /\ [][WorkerMoves
         => /\ UNCHANGED <<pool, healthy_connections, handles, batch_buffer,
                           current_batch_pos, current_batch, db,
                           shutdown_requested>>
            /\ stats' = [stats EXCEPT !.last_batch = stats'.last_batch]]_vars
  /\ [](\A w \in Workers :
          wpc[w] \in {"w_loop", "w_exit"}
            => w \notin stats_mutex /\ w \notin pool_mutex)

\* a worker is about to end an iteration it made after a flush: it holds
\* both locks and the producer waits for stats_mutex in update_batch_stats
C37_Witness ==
  /\ \E w \in Workers :
       wpc[w] = "w_count" /\ stats_mutex = {w} /\ pool_mutex = {w}
  /\ pc = "ubs_lock"
  /\ stats.batches_processed = 1
  /\ \E i \in Slots : pool[i].state = "DEAD" /\ pool[i].last_error = "pq"

\* C38: after a successful init the batch capacity in effect is within
\* MIN_BATCH_SIZE .. MAX_BATCH_SIZE, and whenever the capacity asked for
\* through HYDRANT_BATCH_SIZE is outside that range, the capacity in effect
\* is the nearest bound and a WARN record was written.
NearestBound(b) ==
  IF b < MIN_BATCH_SIZE THEN MIN_BATCH_SIZE
  ELSE IF b > MAX_BATCH_SIZE THEN MAX_BATCH_SIZE ELSE b

C38_CapacityClampedWithWarning ==
  pc = "main" =>
    /\ batch_size >= MIN_BATCH_SIZE /\ batch_size <= MAX_BATCH_SIZE
    /\ (hist.requested # <<>> /\ NearestBound(hist.requested[1])
                                   # hist.requested[1])
         => /\ batch_size = NearestBound(hist.requested[1])
            /\ hist.warns >= 1

\* C39: whenever no flush is in progress, no slot is IN_USE: every way out
\* of flush_batch that follows a successful get_connection (failed BEGIN,
\* failed start of the COPY, aborted copy, failed commit, success) leaves
\* the slot it took AVAILABLE or DEAD.
FlushLabels ==
  {"f_entry", "f_got", "f_copy", "f_early", "f_chunk", "f_finish",
   "f_stats_lock", "f_stats_body", "f_reset"}

FlushInProgress ==
  \/ pc \in FlushLabels
  \/ \E k \in 1 .. Len(stack) : stack[k] \in FlushLabels

C39_NoSlotLeftInUse ==
  ~FlushInProgress => \A i \in Slots : pool[i].state # "IN_USE"

\* a flush whose commit failed has returned, its slot released with one
\* failure counted
C39_Witness ==
  /\ pc \in FlushReturnSites
  /\ ~loc.ok
  /\ loc.processed > 0
  /\ \E i \in Slots : /\ pool[i].state = "AVAILABLE"
                      /\ pool[i].failed_attempts = 1
                      /\ pool[i].last_error = "pq"
  /\ hist.dead_logs = 0

\* C40: every call of flush_batch ends, whatever results PQputCopyData
\* gives: each turn of the chunk loop either advances the written offset or
\* adds to the retry counter, which breaks the loop off when it exceeds
\* max_retries, so a flush that has got its connection returns to its
\* caller.
C40_FlushTerminates ==
  (pc = "f_got" /\ loc.conn # 0) ~> (pc \in FlushReturnSites)

=============================================================================
